---- MODULE Spec2Model ----
(***************************************************************************)
(* Model of BedrockAgentClient.investigate_with_tools                      *)
(* (lambda/bedrock_client.py): the conversation loop that calls the model, *)
(* classifies failures, backs off and retries, dispatches tool directives  *)
(* to the tool Lambda and assembles the investigation result               *)
(* (specification Spec; SpecParse for the responses that exercise the     *)
(* directive parsing; SpecRetry for runs with several rounds of retries);  *)
(* of should_investigate, save_enhanced_reports_to_s3                      *)
(* and handler                                                             *)
(* (lambda/triage_handler.py) for invocations running side by side         *)
(* (SpecDedup); and of lambda_handler and execute_python_code              *)
(* (tool-lambda/tool_handler.py) for calls sharing one process             *)
(* (SpecSandbox; SpecEngine for commands with imports, lines that do not   *)
(* parse and assignments to result).                                       *)
(*                                                                         *)
(* Texts are sequences of lines.  <<>> is the empty string, "" is a blank  *)
(* line inside a text.  For the [:200] and [:500] slices every line counts *)
(* as PieceChars characters.  Wall-clock timestamps are left out.          *)
(***************************************************************************)
EXTENDS Integers, Sequences, FiniteSets, TLC

VARIABLES
    is_nova,          \* 'nova' in self.model_id.lower()
    messages,         \* the Converse conversation
    full_context,     \* the audit trace
    tool_calls,       \* ToolCallRecords
    iteration_count,  \* number of Bedrock invocations
    iteration,        \* the loop variable of  for iteration in range(max_iterations)
    retry_count,
    final_response,
    code,             \* code extracted from the directive being dispatched
    pc,               \* "loop" | "dispatch" | "done" | "raised"
    result,           \* the returned dict (NotReturned until the call returns)
    escaped,          \* the exception that left the method, if any
    calls,            \* what the collaborators saw: converse, invoke and sleep calls, in order
    steady,           \* the model's answer outside the free windows
    steadyTool,       \* the tool Lambda's answer outside the free windows
    alphabet,         \* the answers the model can give in the free windows
    free_head         \* the number of first calls the model answers freely

\* triage_handler.handler and should_investigate, one entry per invocation
VARIABLES
    table,            \* the DynamoDB table: alarm name -> item
    now,              \* time.time(), in seconds
    hpc,              \* where each invocation of handler stands
    alarm_name,       \* the alarm each invocation is about
    alarm_state,      \* the state value of its event
    response,         \* what table.get_item returned to it
    should_process,   \* what should_investigate returned to it
    effects,          \* the calls it made to DynamoDB, Bedrock, S3 and SNS, in order
    analysis,         \* the analysis it notifies
    report_location,  \* what save_enhanced_reports_to_s3 returned to it
    error,            \* the exception its outer except clause caught
    handler_response, \* what it returned
    interleaved       \* an invocation read the table while another stood between its
                      \* read and its write

orchVars == <<is_nova, messages, full_context, tool_calls, iteration_count, iteration,
              retry_count, final_response, code, pc, result, escaped, calls, steady, steadyTool,
              alphabet, free_head>>
dedupVars == <<table, now, hpc, alarm_name, alarm_state, response, should_process, effects,
               analysis, report_location, error, handler_response, interleaved>>

\* tool_handler.lambda_handler and execute_python_code, one entry per call
VARIABLES
    sys_stdout,        \* the object sys.stdout names
    sys_stderr,        \* the object sys.stderr names
    buffers,           \* what has been written to each stream
    xpc,               \* where each call stands
    command,           \* event['command'] of each call: its statements
    old_stdout,        \* the local old_stdout of each call
    old_stderr,        \* the local old_stderr of each call
    ip,                \* the statement exec is at
    raisedExc,         \* the exception the executed code raised
    execution_result,  \* what execute_python_code returned
    lambda_response,   \* what lambda_handler returned
    printed,           \* the lines the code's print calls wrote
    entry_stdio,       \* sys.stdout and sys.stderr when the call began
    overlapped,        \* a call began while another was under way
    namespace          \* the namespace exec runs the code in: its 'result' variable

sandboxVars == <<sys_stdout, sys_stderr, buffers, xpc, command, old_stdout, old_stderr, ip,
                 raisedExc, execution_result, lambda_response, printed, entry_stdio, overlapped,
                 namespace>>

vars == <<orchVars, dedupVars, sandboxVars>>

(***************************************************************************)
(* Bounds of the environment and constants of the program.                 *)
(***************************************************************************)
FreeHead == 3
FreeTail == 1
\* under SpecRetry the model answers freely on its first RetryHead calls
RetryHead == 8

max_iterations == 100
max_retries == 3
PieceChars == 100

Min(a, b) == IF a <= b THEN a ELSE b

RECURSIVE Pow2(_)
Pow2(n) == IF n = 0 THEN 1 ELSE 2 * Pow2(n - 1)

(***************************************************************************)
(* Text helpers.                                                           *)
(***************************************************************************)
Marker == "TOOL: python_executor"
MarkerLower == "tool: python_executor"
\* the marker without the space after the colon
MarkerUnspaced == "TOOL:python_executor"
\* the line that opens a python fence and a line that closes a fence (three backticks)
FenceOpen == "<fence>python"
FenceClose == "<fence>"

\* lines[0].strip().upper().startswith('TOOL: PYTHON_EXECUTOR')
OpenMarkers == {Marker, MarkerLower}
\* TOOL:\s*python_executor\s*  under re.IGNORECASE
StripMarkers == {Marker, MarkerLower, MarkerUnspaced}
\* lines that contain three backticks
Backticked == {FenceOpen, FenceClose}

\* str.strip(), seen on lines
Strip(text) ==
    LET nb == {i \in 1..Len(text) : text[i] # ""}
    IN  IF nb = {} THEN <<>>
        ELSE SubSeq(text, CHOOSE i \in nb : \A j \in nb : i <= j,
                          CHOOSE i \in nb : \A j \in nb : i >= j)

\* s[:n]
Take(text, n) == SubSeq(text, 1, Min(Len(text), n \div PieceChars))

\* the marker looked for anywhere in the response
OpensWithMarker_anywhere(text) == \E i \in 1..Len(text) : text[i] \in OpenMarkers

\* the marker test merged with the test for a code fence
OpensWithMarker_withFence(text) ==
    /\ \E i \in 1..Len(text) : text[i] = FenceOpen
    /\ LET nb == {i \in 1..Len(text) : text[i] # ""}
       IN  nb # {} /\ text[CHOOSE i \in nb : \A j \in nb : i <= j] \in OpenMarkers

\* lines = response_text.strip().split('\n'); lines[0]....startswith(marker)
OpensWithMarker(text) ==
    LET lines == Strip(text)
    IN  Len(lines) > 0 /\ lines[1] \in OpenMarkers

\* re.search(<fence>python\n(.*?)\n<fence>, response_text, re.DOTALL)
FenceStarts(text) ==
    {i \in 1..Len(text) : text[i] = FenceOpen
                            /\ \E j \in (i + 2)..Len(text) : text[j] \in Backticked}

HasCodeMatch(text) == FenceStarts(text) # {}

\* code_match.group(1).strip()
ExtractCode(text) ==
    LET i == CHOOSE k \in FenceStarts(text) : \A m \in FenceStarts(text) : k <= m
        js == {j \in (i + 2)..Len(text) : text[j] \in Backticked}
        j == CHOOSE k \in js : \A m \in js : k <= m
    IN  Strip(SubSeq(text, i + 1, j - 1))

\* the cut made at the first fenced python block, marker or not
TrailingStarts_anyFence(text) ==
    {i \in 1..Len(text) :
        text[i] = FenceOpen /\ \E c \in (i + 1)..Len(text) : text[c] \in Backticked}

\* re.sub(\n*TOOL:\s*python_executor\s*\n<fence>python.*?<fence>.*$, '', text, DOTALL|IGNORECASE)
TrailingStarts(text) ==
    {i \in 1..Len(text) :
        /\ text[i] \in StripMarkers
        /\ \E k \in (i + 1)..Len(text) :
              /\ text[k] = FenceOpen
              /\ \A b \in (i + 1)..(k - 1) : text[b] = ""
              /\ \E c \in (k + 1)..Len(text) : text[c] \in Backticked}

RECURSIVE DropTrailingBlank(_)
DropTrailingBlank(text) ==
    IF Len(text) > 0 /\ text[Len(text)] = ""
    THEN DropTrailingBlank(SubSeq(text, 1, Len(text) - 1))
    ELSE text

RemoveTrailingTool(text) ==
    IF TrailingStarts(text) = {} THEN text
    ELSE LET i == CHOOSE k \in TrailingStarts(text) : \A m \in TrailingStarts(text) : k <= m
         IN  DropTrailingBlank(SubSeq(text, 1, i - 1))

\* lines 260-269
CleanFinal(text) ==
    LET cleaned == RemoveTrailingTool(text)
    IN  IF cleaned # text THEN Strip(cleaned) ELSE text

(***************************************************************************)
(* Exceptions: the class name, the classes an except clause matches them   *)
(* by, and str(e).                                                         *)
(***************************************************************************)
ThrottlingError ==
    [type |-> "ClientError", bases |-> {"ClientError", "Exception"},
     str |-> "An error occurred (ThrottlingException) when calling the Converse operation: Too many requests"]
QuotaError ==
    [type |-> "ClientError", bases |-> {"ClientError", "Exception"},
     str |-> "An error occurred (ServiceQuotaExceededException) when calling the Converse operation"]
EndpointTimeout ==
    [type |-> "Exception", bases |-> {"Exception"},
     str |-> "Read timeout on endpoint"]
PoolTimeout ==
    [type |-> "ReadTimeoutError", bases |-> {"ReadTimeoutError", "Exception"},
     str |-> "HTTPSConnectionPool: Read timed out. (read timeout=300)"]
ValidationError ==
    [type |-> "ClientError", bases |-> {"ClientError", "Exception"},
     str |-> "An error occurred (ValidationException) when calling the Converse operation"]
\* response['output']['message'] on a response without those keys
ShapeError ==
    [type |-> "KeyError", bases |-> {"KeyError", "LookupError", "Exception"},
     str |-> "'output'"]
\* lambda_client.invoke failing
InvokeError ==
    [type |-> "ClientError", bases |-> {"ClientError", "Exception"},
     str |-> "An error occurred (TooManyRequestsException) when calling the Invoke operation: Rate exceeded"]
NoException == [type |-> "none", bases |-> {}, str |-> ""]

\* sub in s, for the substrings the code looks for
Contains(s, sub) ==
    \/ s = ThrottlingError.str /\ sub = "ThrottlingException"
    \/ s = QuotaError.str /\ sub = "ServiceQuotaExceededException"
    \/ s = EndpointTimeout.str /\ sub = "Read timeout on endpoint"

\* 'timeout' in s.lower()
LowerContainsTimeout(s) == s \in {EndpointTimeout.str, PoolTimeout.str}

\* every botocore ClientError taken for a transient one
IsRetryable_anyClientError(e) ==
    \/ Contains(e.str, "ThrottlingException")
    \/ Contains(e.str, "ServiceQuotaExceededException")
    \/ Contains(e.str, "Read timeout on endpoint")
    \/ Contains(e.str, "ReadTimeoutError")
    \/ e.type = "ReadTimeoutError"
    \/ e.type = "ClientError"

\* lines 163-167
IsRetryable(e) ==
    \/ Contains(e.str, "ThrottlingException")
    \/ Contains(e.str, "ServiceQuotaExceededException")
    \/ Contains(e.str, "Read timeout on endpoint")
    \/ Contains(e.str, "ReadTimeoutError")
    \/ e.type = "ReadTimeoutError"

\* the wait computed from the retry count before its increment
WaitTime_stale(e, count) ==
    IF LowerContainsTimeout(e.str) \/ e.type = "ReadTimeoutError"
    THEN Min(5 * (count - 1), 20)
    ELSE Min(Pow2(count - 1), 30)

\* lines 170-174, in seconds
WaitTime(e, count) ==
    IF LowerContainsTimeout(e.str) \/ e.type = "ReadTimeoutError"
    THEN Min(5 * count, 20)
    ELSE Min(Pow2(count), 30)

\* the ceiling compared strictly
ShouldRetry_strict(count) == count < max_retries

\* if retry_count <= max_retries  (line 169)
ShouldRetry(count) == count <= max_retries

\* a retry counter that is never reset
RetryAfterSuccess_kept(count) == count

\* retry_count = 0 after a call that returned (line 158)
RetryAfterSuccess(count) == 0

\* one round too many
InRange_inclusive(i) == i <= max_iterations

\* for iteration in range(max_iterations)  (line 147)
InRange(i) == i < max_iterations

\* the policy applied to every model
ForceInvestigation_always(nova, tcalls, i) == Len(tcalls) = 0 /\ i = 0

\* if is_nova and len(tool_calls) == 0 and iteration == 0  (line 245)
ForceInvestigation(nova, tcalls, i) == nova /\ Len(tcalls) = 0 /\ i = 0

\* an outer handler for botocore errors only
OuterCatches_clientOnly(e) == "ClientError" \in e.bases

\* the outer  except Exception as e  (line 287)
OuterCatches(e) == "Exception" \in e.bases
\* a tool handler for payload errors only
ToolCatches_keyOnly(e) == "KeyError" \in e.bases

\* the  except Exception as e  of execute_tool (line 61)
ToolCatches(e) == "Exception" \in e.bases

(***************************************************************************)
(* What the model and the tool Lambda can answer.                          *)
(***************************************************************************)
LLMErrors == {"throttle", "quota", "timeout", "pool_timeout", "validation"}
LLMResponses == {"tool", "tool_padded", "malformed", "final", "final_trailing", "empty"}
LLMOutcomes == LLMResponses \cup LLMErrors \cup {"badshape"}
\* responses that mix narration, fenced code and directives
ParseResponses == {"tool_prefaced", "final_fenced", "tool_unspaced"}
ParseOutcomes ==
    ParseResponses \cup {"tool", "final", "final_trailing", "empty", "timeout", "validation"}
ToolOutcomes == {"ok", "ok_failed", "non200", "exc"}

ErrorOf(o) ==
    CASE o = "throttle" -> ThrottlingError
      [] o = "quota" -> QuotaError
      [] o = "timeout" -> EndpointTimeout
      [] o = "pool_timeout" -> PoolTimeout
      [] o = "validation" -> ValidationError

ToolCode == <<"logs = boto3.client('logs')", "streams = logs.describe_log_streams()", "print(streams)">>

TextOf(o) ==
    CASE o = "tool" -> <<Marker, FenceOpen>> \o ToolCode \o <<FenceClose>>
      [] o = "tool_padded" -> <<"", MarkerLower, FenceOpen>> \o ToolCode \o <<FenceClose, "">>
      [] o = "malformed" -> <<Marker, "print('no fence')">>
      [] o = "final" -> <<"### Analysis", "Root cause: the function timed out">>
      [] o = "final_trailing" ->
            <<"### Analysis", "Root cause: the function timed out", "",
              Marker, FenceOpen, "print('more')", FenceClose, "I will check further.">>
      [] o = "empty" -> <<>>
      [] o = "tool_prefaced" ->
            <<"I'll investigate this CloudWatch alarm. Let me start by examining the configuration.",
              "", Marker, FenceOpen>> \o ToolCode \o <<FenceClose>>
      [] o = "tool_unspaced" -> <<MarkerUnspaced, FenceOpen>> \o ToolCode \o <<FenceClose>>
      [] o = "final_fenced" ->
            <<"", "### Analysis", "Apply this configuration:", FenceOpen, "TIMEOUT = 60", FenceClose,
              "Use the above configuration.", "",
              Marker, FenceOpen, "print('Checking current config')", FenceClose, "More to come.">>

LongOutput == <<"o1", "o2", "o3", "o4", "o5", "o6">>

\* the StatusCode of the invoke response
StatusOf(t) == IF t = "non200" THEN 500 ELSE 200
\* json.loads(result['body']) of the tool Lambda's answer
BodyOf(t) ==
    IF t = "ok" THEN [success |-> TRUE, output |-> LongOutput]
    ELSE [success |-> FALSE, output |-> <<"NameError: name 'x' is not defined">>]

(***************************************************************************)
(* Texts the method builds.                                                *)
(***************************************************************************)
Prompt == "Investigate alarm test-alarm"
tool_prompt ==
    <<"You have access to a Python execution tool for investigating AWS resources.",
      "## YOUR TASK", Prompt,
      "Remember: Investigate thoroughly with tools FIRST, then provide your analysis.">>

BoolStr(b) == IF b THEN "True" ELSE "False"
IntStr(n) == IF n = 500 THEN "500" ELSE "200"

\* lines 57-59 and 62-64
StatusFailure(status) ==
    [success |-> FALSE, output |-> <<"Tool execution failed with status " \o IntStr(status)>>]
ToolFailure(e) ==
    [success |-> FALSE, output |-> <<"Tool execution error: " \o e.str>>]

\* lines 216-219
tool_response(tool_result) ==
    <<"Tool execution result:", "Success: " \o BoolStr(tool_result.success), "Output:">>
        \o tool_result.output

CorrectiveText ==
    <<"Tool call detected but no code block found. Please provide the code in a markdown code fence.">>
ForceText ==
    <<"You must investigate first using the Python tool. Start your response with 'TOOL: python_executor' and gather real data from AWS. Do not provide analysis without investigation.">>
DefaultReport == <<"Investigation completed but no analysis was generated.">>

\* lines 290-304
error_report(e) ==
    <<"", "Investigation Error", "==================", "",
      "An error occurred while invoking model for investigation:", e.str, "",
      "Please check the Lambda logs for more details.", "", "Troubleshooting Steps:">>

UserMsg(text) == [role |-> "user", content |-> text]
AssistantMsg(text) == [role |-> "assistant", content |-> text]

\* the count taken from the model responses recorded in the trace
ReturnDict_roundtrips(final, ctx, count, tcalls) ==
    [report |-> IF final # <<>> THEN final ELSE DefaultReport,
     full_context |-> ctx,
     iteration_count |-> Len(SelectSeq(ctx, LAMBDA c : c.role = "assistant")),
     tool_calls |-> tcalls]

\* the report returned as it is, empty or not
ReturnDict_noDefault(final, ctx, count, tcalls) ==
    [report |-> final, full_context |-> ctx, iteration_count |-> count, tool_calls |-> tcalls]

\* lines 280-285
ReturnDict(final, ctx, count, tcalls) ==
    [report |-> IF final # <<>> THEN final ELSE DefaultReport,
     full_context |-> ctx,
     iteration_count |-> count,
     tool_calls |-> tcalls]

\* the fallback of  iteration_count if 'iteration_count' in locals() else 0  always taken
ErrorDict_zero(e, count, tcalls) ==
    [report |-> error_report(e),
     full_context |-> <<>>,
     iteration_count |-> 0,
     tool_calls |-> tcalls]

\* lines 306-311
ErrorDict(e, count, tcalls) ==
    [report |-> error_report(e),
     full_context |-> <<>>,
     iteration_count |-> count,
     tool_calls |-> tcalls]

NotReturned == [pending |-> TRUE]

(***************************************************************************)
(* The environment: the model answers freely on its first FreeHead calls   *)
(* (when its steady answer does not keep the loop going) and on the last   *)
(* FreeTail iterations before the ceiling, and gives its steady answer in  *)
(* between; the tool Lambda likewise.                                      *)
(***************************************************************************)
Looping == {"tool", "tool_padded", "malformed"}
SteadyOutcomes == {"tool", "malformed", "final", "timeout", "throttle"}

Free(i) ==
    \/ steady \notin Looping /\ i < free_head
    \/ i >= max_iterations - FreeTail

LLMChoices == IF Free(iteration) THEN alphabet ELSE {steady}
ToolChoices == IF Free(iteration) THEN ToolOutcomes ELSE {steadyTool}

Converses == SelectSeq(calls, LAMBDA c : c.op = "converse")
Invokes == SelectSeq(calls, LAMBDA c : c.op = "invoke")
Sleeps == SelectSeq(calls, LAMBDA c : c.op = "sleep")

(***************************************************************************)
(* The triage handler's state while no invocation of it is under way.      *)
(***************************************************************************)
Handlers == {"h1", "h2"}
Alarms == {"cpu-high", "disk-full"}
NoItem == [present |-> FALSE, timestamp |-> 0, ttl |-> 0]
NoAnswer == [should |-> FALSE, time_since |-> 0, at |-> 0, failed |-> FALSE]

\* the locals of an invocation before it has run
HandlerRest ==
    /\ effects = [h \in Handlers |-> <<>>]
    /\ analysis = [h \in Handlers |-> <<>>]
    /\ report_location = [h \in Handlers |-> "unset"]
    /\ error = [h \in Handlers |-> NoException]
    /\ handler_response = [h \in Handlers |-> NotReturned]
    /\ interleaved = FALSE

DedupIdle ==
    /\ table = [a \in Alarms |-> NoItem]
    /\ now = 0
    /\ hpc = [h \in Handlers |-> "returned"]
    /\ alarm_name = [h \in Handlers |-> "cpu-high"]
    /\ alarm_state = [h \in Handlers |-> "OK"]
    /\ response = [h \in Handlers |-> NoItem]
    /\ should_process = [h \in Handlers |-> NoAnswer]
    /\ HandlerRest

(***************************************************************************)
(* The tool Lambda's process while no call is under way.                   *)
(***************************************************************************)
ExecCalls == {"c1", "c2"}
\* a value of the executed code, with the texts str() and json.dumps(indent=2)
\* give for it
NoneValue == [is_none |-> TRUE, kind |-> "NoneType", str |-> <<"None">>, json |-> <<"null">>]
\* result_str = None
NoResult == [is_none |-> TRUE, text |-> <<>>]
CapturedStdout(c) == "captured_stdout of " \o c
CapturedStderr(c) == "captured_stderr of " \o c
Streams ==
    {"console_out", "console_err"}
        \cup {CapturedStdout(c) : c \in ExecCalls} \cup {CapturedStderr(c) : c \in ExecCalls}

SandboxRest ==
    /\ sys_stdout = "console_out"
    /\ sys_stderr = "console_err"
    /\ buffers = [st \in Streams |-> <<>>]
    /\ xpc = [c \in ExecCalls |-> "idle"]
    /\ old_stdout = [c \in ExecCalls |-> "unset"]
    /\ old_stderr = [c \in ExecCalls |-> "unset"]
    /\ ip = [c \in ExecCalls |-> 0]
    /\ raisedExc = [c \in ExecCalls |-> NoException]
    /\ execution_result = [c \in ExecCalls |-> NotReturned]
    /\ lambda_response = [c \in ExecCalls |-> NotReturned]
    /\ printed = [c \in ExecCalls |-> <<>>]
    /\ entry_stdio = [c \in ExecCalls |-> <<"unset", "unset">>]
    /\ overlapped = FALSE
    /\ namespace = [c \in ExecCalls |-> [result |-> NoneValue]]

SandboxIdle ==
    /\ SandboxRest
    /\ command = [c \in ExecCalls |-> <<>>]

(***************************************************************************)
(* investigate_with_tools, up to the loop (lines 33-145).                  *)
(***************************************************************************)
Init ==
    /\ DedupIdle
    /\ SandboxIdle
    /\ is_nova \in BOOLEAN
    /\ steady \in SteadyOutcomes
    /\ steadyTool \in (IF steady = "tool" THEN ToolOutcomes ELSE {"ok"})
    /\ alphabet = LLMOutcomes
    /\ free_head = FreeHead
    /\ messages = <<UserMsg(tool_prompt)>>
    /\ full_context = <<[role |-> "user", content |-> tool_prompt]>>
    /\ tool_calls = <<>>
    /\ iteration_count = 0
    /\ iteration = 0
    /\ retry_count = 0
    /\ final_response = <<>>
    /\ code = <<>>
    /\ pc = "loop"
    /\ result = NotReturned
    /\ escaped = NoException
    /\ calls = <<>>

\* an exception reaching the outer try of the method (lines 287-311)
Raise(e, count) ==
    IF OuterCatches(e)
    THEN /\ result' = ErrorDict(e, count, tool_calls)
         /\ pc' = "done"
         /\ escaped' = escaped
    ELSE /\ escaped' = e
         /\ pc' = "raised"
         /\ result' = result

\* return (lines 274-285)
Return(final) ==
    /\ result' = ReturnDict(final, full_context', iteration_count', tool_calls)
    /\ pc' = "done"
    /\ escaped' = escaped

\* bedrock.converse raises (lines 148-151, 160-183)
ConverseRaises ==
    /\ pc = "loop"
    /\ InRange(iteration)
    /\ \E o \in LLMChoices \cap LLMErrors :
         LET e == ErrorOf(o)
             called == Append(calls, [op |-> "converse", outcome |-> o])
         IN  /\ iteration_count' = iteration_count + 1
             /\ IF IsRetryable(e)
                THEN /\ retry_count' = retry_count + 1
                     /\ IF ShouldRetry(retry_count')
                        THEN /\ calls' = Append(called,
                                    [op |-> "sleep", ms |-> 1000 * WaitTime(e, retry_count')])
                             /\ iteration' = iteration + 1
                             /\ UNCHANGED <<pc, result, escaped>>
                        ELSE /\ calls' = called
                             /\ iteration' = iteration
                             /\ Raise(e, iteration_count')
                ELSE /\ retry_count' = retry_count
                     /\ calls' = called
                     /\ iteration' = iteration
                     /\ Raise(e, iteration_count')
    /\ UNCHANGED <<is_nova, messages, full_context, tool_calls, final_response, code,
                   steady, steadyTool, alphabet,
                   free_head>>
    /\ UNCHANGED <<dedupVars, sandboxVars>>

\* bedrock.converse returns (lines 148-158, 185-256 up to the tool call, 258-285)
ConverseReturns ==
    /\ pc = "loop"
    /\ InRange(iteration)
    /\ \E o \in LLMChoices \ LLMErrors :
         /\ iteration_count' = iteration_count + 1
         /\ calls' = Append(calls, [op |-> "converse", outcome |-> o])
         /\ retry_count' = RetryAfterSuccess(retry_count)
         /\ IF o = "badshape"
            THEN /\ Raise(ShapeError, iteration_count')
                 /\ UNCHANGED <<messages, full_context, final_response, code, iteration>>
            ELSE LET response_text == TextOf(o)
                     said == Append(messages, AssistantMsg(response_text))
                 IN  /\ full_context' = Append(full_context,
                            [role |-> "assistant", content |-> response_text,
                             iteration |-> iteration + 1])
                     /\ IF OpensWithMarker(response_text)
                        THEN IF HasCodeMatch(response_text)
                             THEN /\ code' = ExtractCode(response_text)
                                  /\ messages' = said
                                  /\ pc' = "dispatch"
                                  /\ UNCHANGED <<final_response, iteration, result, escaped>>
                             ELSE /\ messages' = Append(said, UserMsg(CorrectiveText))
                                  /\ iteration' = iteration + 1
                                  /\ UNCHANGED <<final_response, code, pc, result, escaped>>
                        ELSE IF ForceInvestigation(is_nova, tool_calls, iteration)
                             THEN /\ messages' = said \o <<AssistantMsg(response_text),
                                                            UserMsg(ForceText)>>
                                  /\ iteration' = iteration + 1
                                  /\ UNCHANGED <<final_response, code, pc, result, escaped>>
                             ELSE /\ final_response' = CleanFinal(response_text)
                                  /\ messages' = said
                                  /\ Return(final_response')
                                  /\ UNCHANGED <<code, iteration>>
    /\ UNCHANGED <<is_nova, tool_calls, steady, steadyTool, alphabet,
                   free_head>>
    /\ UNCHANGED <<dedupVars, sandboxVars>>

\* execute_tool (lines 38-64): the dict it returns
ToolResult(t) ==
    IF t = "exc" THEN ToolFailure(InvokeError)
    ELSE IF StatusOf(t) = 200 THEN BodyOf(t)
    ELSE StatusFailure(StatusOf(t))

\* execute_tool and the rest of the tool branch (lines 38-64, 213-235)
ExecuteTool ==
    /\ pc = "dispatch"
    /\ \E t \in ToolChoices :
         IF t = "exc" /\ ~ToolCatches(InvokeError)
         THEN /\ calls' = Append(calls, [op |-> "invoke", outcome |-> t])
              /\ Raise(InvokeError, iteration_count)
              /\ UNCHANGED <<tool_calls, messages, full_context, iteration>>
         ELSE LET tool_result == ToolResult(t)
              IN  /\ calls' = calls \o <<[op |-> "invoke", outcome |-> t],
                                         [op |-> "sleep", ms |-> 500]>>
                  /\ tool_calls' =
                         IF t # "exc" /\ StatusOf(t) = 200
                         THEN Append(tool_calls,
                                 [input |-> [command |-> Take(code, 200)],
                                  output |-> Take(tool_result.output, 500)])
                         ELSE tool_calls
                  /\ messages' = Append(messages, UserMsg(tool_response(tool_result)))
                  /\ full_context' = Append(full_context,
                         [role |-> "tool_execution", input |-> code, output |-> tool_result])
                  /\ iteration' = iteration + 1
                  /\ pc' = "loop"
                  /\ UNCHANGED <<result, escaped>>
    /\ UNCHANGED <<is_nova, iteration_count, retry_count, final_response, code,
                   steady, steadyTool, alphabet,
                   free_head>>
    /\ UNCHANGED <<dedupVars, sandboxVars>>

\* range(max_iterations) is exhausted: the return after the loop (lines 274-285)
LoopExhausted ==
    /\ pc = "loop"
    /\ ~InRange(iteration)
    /\ UNCHANGED <<full_context, iteration_count>>
    /\ Return(final_response)
    /\ UNCHANGED <<is_nova, messages, tool_calls, iteration, retry_count, final_response,
                   code, calls, steady, steadyTool, alphabet,
                   free_head>>
    /\ UNCHANGED <<dedupVars, sandboxVars>>

Next == ConverseRaises \/ ConverseReturns \/ ExecuteTool \/ LoopExhausted

Spec == Init /\ [][Next]_vars

\* the same method, answered by a model that mixes narration, fenced code and
\* directives in its responses
InitParse ==
    /\ DedupIdle
    /\ SandboxIdle
    /\ is_nova \in BOOLEAN
    /\ steady \in SteadyOutcomes
    /\ steadyTool \in (IF steady = "tool" THEN ToolOutcomes ELSE {"ok"})
    /\ alphabet = ParseOutcomes
    /\ free_head = FreeHead
    /\ messages = <<UserMsg(tool_prompt)>>
    /\ full_context = <<[role |-> "user", content |-> tool_prompt]>>
    /\ tool_calls = <<>>
    /\ iteration_count = 0
    /\ iteration = 0
    /\ retry_count = 0
    /\ final_response = <<>>
    /\ code = <<>>
    /\ pc = "loop"
    /\ result = NotReturned
    /\ escaped = NoException
    /\ calls = <<>>

SpecParse == InitParse /\ [][Next]_vars

\* the answers under SpecRetry: a retryable error, a response that keeps the
\* loop going, a final report
RetryOutcomes == {"throttle", "malformed", "final"}

\* the same method with a long free window over a small alphabet, for runs
\* with several rounds of retries
InitRetry ==
    /\ DedupIdle
    /\ SandboxIdle
    /\ is_nova \in BOOLEAN
    /\ steady \in {"final", "throttle", "tool"}
    /\ steadyTool = "ok"
    /\ alphabet = RetryOutcomes
    /\ free_head = RetryHead
    /\ messages = <<UserMsg(tool_prompt)>>
    /\ full_context = <<[role |-> "user", content |-> tool_prompt]>>
    /\ tool_calls = <<>>
    /\ iteration_count = 0
    /\ iteration = 0
    /\ retry_count = 0
    /\ final_response = <<>>
    /\ code = <<>>
    /\ pc = "loop"
    /\ result = NotReturned
    /\ escaped = NoException
    /\ calls = <<>>

SpecRetry == InitRetry /\ [][Next]_vars

(***************************************************************************)
(* Properties.                                                             *)
(***************************************************************************)
Range(seq) == {seq[i] : i \in DOMAIN seq}
ResultKeys == {"report", "full_context", "iteration_count", "tool_calls"}
RetryableNames == {"throttle", "quota", "timeout", "pool_timeout"}
TimeoutNames == {"timeout", "pool_timeout"}
FatalNames == {"validation"}
FailedToolNames == {"non200", "exc"}

IsConverse(i) == calls[i].op = "converse"
IsSuccess(i) == IsConverse(i) /\ calls[i].outcome \notin LLMErrors
IsRetryError(i) == IsConverse(i) /\ calls[i].outcome \in RetryableNames
Outcomes(seq) == {seq[i].outcome : i \in DOMAIN seq}
LastOutcome(seq) == seq[Len(seq)].outcome

\* C1: no exception leaves investigate_with_tools, whatever the model and the
\* tool Lambda answer; once it has returned, the result is a dict with exactly
\* the keys report, full_context, iteration_count and tool_calls.
C1_NeverRaises ==
    /\ pc # "raised"
    /\ escaped = NoException
    /\ pc = "done" => DOMAIN result = ResultKeys

C1_Witness ==
    /\ pc = "done"
    /\ DOMAIN result = ResultKeys
    /\ "badshape" \in Outcomes(Converses)
    /\ "exc" \in Outcomes(Invokes)
    /\ Outcomes(Converses) \cap RetryableNames # {}

\* the first call of the logical step that the successful call at i ends
StepStart(i) ==
    LET before == {j \in 1..(i - 1) : IsSuccess(j)}
    IN  IF before = {} THEN 1 ELSE 1 + CHOOSE j \in before : \A k \in before : k <= j
StepErrors(i) == {k \in StepStart(i)..(i - 1) : IsConverse(k)}
StepSleeps(i) ==
    {k \in StepStart(i)..(i - 1) :
        calls[k].op = "sleep" /\ \E e \in StepErrors(i) : e < k}
ExpectedMs(o, k) ==
    IF o \in TimeoutNames THEN 1000 * Min(5 * k, 20) ELSE 1000 * Min(Pow2(k), 30)

\* C2: a logical step whose LLM call raises N retryable errors (1 <= N <= 3)
\* and then succeeds makes N+1 LLM calls and N backoff sleeps, each error
\* followed at once by its sleep, the k-th of min(5k, 20) s for a timeout and
\* of min(2^k, 30) s for a throttle or quota error.
C2_RetryThenSuccess ==
    (\E k \in 1..Len(calls) : IsConverse(k) /\ ~IsSuccess(k)) =>
    \A i \in 1..Len(calls) :
        IsSuccess(i) /\ StepErrors(i) # {} =>
            /\ \A e \in StepErrors(i) : IsRetryError(e)
            /\ Cardinality(StepErrors(i)) <= 3
            /\ Cardinality(StepSleeps(i)) = Cardinality(StepErrors(i))
            /\ i = (CHOOSE e \in StepErrors(i) : \A f \in StepErrors(i) : e <= f)
                     + 2 * Cardinality(StepErrors(i))
            /\ \A e \in StepErrors(i) :
                 calls[e + 1] =
                    [op |-> "sleep",
                     ms |-> ExpectedMs(calls[e].outcome,
                                       Cardinality({f \in StepErrors(i) : f <= e}))]

C2_Witness ==
    /\ pc = "done"
    /\ calls = <<[op |-> "converse", outcome |-> "timeout"],
                 [op |-> "sleep", ms |-> 5000],
                 [op |-> "converse", outcome |-> "throttle"],
                 [op |-> "sleep", ms |-> 4000],
                 [op |-> "converse", outcome |-> "quota"],
                 [op |-> "sleep", ms |-> 8000],
                 [op |-> "converse", outcome |-> "final"]>>
    /\ result.report = TextOf("final")

AllRetryable == Len(Converses) > 0 /\ Outcomes(Converses) \subseteq RetryableNames

\* C3: when every LLM call raises a retryable error there are never more than
\* 4 LLM calls; the first three are each followed by a backoff sleep and the
\* loop goes on, the fourth ends the method after 4 calls and 3 sleeps with
\* the fallback error report, which carries the text of the last error.
C3_RetryCeiling ==
    AllRetryable =>
        /\ Len(Converses) <= 4
        /\ Len(Converses) < 4 =>
              pc = "loop" /\ Len(Sleeps) = Len(Converses) /\ result = NotReturned
        /\ Len(Converses) = 4 =>
              /\ pc = "done"
              /\ Len(Sleeps) = 3
              /\ calls[Len(calls)].op = "converse"
              /\ "Investigation Error" \in Range(result.report)
              /\ ErrorOf(LastOutcome(Converses)).str \in Range(result.report)

C3_Witness ==
    /\ pc = "done"
    /\ AllRetryable
    /\ Len(Converses) = 4
    /\ Len(Sleeps) = 3
    /\ Outcomes(Converses) = RetryableNames
    /\ "Investigation Error" \in Range(result.report)

\* C4: a converse call that raises a non-retryable error is the last call the
\* method makes (no further LLM call, no sleep): the method has returned a
\* result whose report carries 'Investigation Error' and the error's text, and
\* whose iteration_count is 1 when that call was the first.
C4_FatalError ==
    \A i \in 1..Len(calls) :
        IsConverse(i) /\ calls[i].outcome \in FatalNames =>
            /\ i = Len(calls)
            /\ pc = "done"
            /\ "Investigation Error" \in Range(result.report)
            /\ ErrorOf(calls[i].outcome).str \in Range(result.report)
            /\ i = 1 => result.iteration_count = 1

C4_Witness ==
    /\ pc = "done"
    /\ calls = <<[op |-> "converse", outcome |-> "validation"]>>
    /\ result.iteration_count = 1
    /\ ValidationError.str \in Range(result.report)

AllTool == Len(Converses) > 0 /\ Outcomes(Converses) = {"tool"}

\* C5: when every model answer is a well-formed tool directive the method
\* returns only at the iteration ceiling: after 100 LLM calls and 100 tool
\* invocations, with the default report and iteration_count 100.
C5_IterationCeiling ==
    pc = "done" /\ AllTool =>
        /\ Len(Converses) = 100
        /\ Len(Invokes) = 100
        /\ result.report = DefaultReport
        /\ result.iteration_count = 100

C5_Witness ==
    /\ pc = "done"
    /\ AllTool
    /\ Len(Invokes) = 100
    /\ result.iteration_count = 100
    /\ result.report = DefaultReport
    /\ FailedToolNames \subseteq Outcomes(Invokes)

Successes == SelectSeq(Converses, LAMBDA c : c.outcome \notin LLMErrors)
Failures == SelectSeq(Converses, LAMBDA c : c.outcome \in LLMErrors)

\* C6 as stated, on the runs whose last LLM call completed: the returned
\* iteration_count is the number of LLM calls that completed successfully,
\* failed attempts that were retried not being counted.
C6_Original ==
    pc = "done" /\ LastOutcome(Converses) \notin LLMErrors =>
        result.iteration_count = Len(Successes)

\* C6 amended: the returned iteration_count is the number of LLM calls that
\* completed successfully plus the number of attempts that raised an error.
C6_Amended ==
    pc = "done" => result.iteration_count = Len(Successes) + Len(Failures)

C6_Witness ==
    /\ pc = "done"
    /\ Len(Successes) = 2
    /\ Len(Failures) = 2
    /\ result.iteration_count = 4
    /\ LastOutcome(Converses) = "final"

\* C7: iteration_count counts every LLM invocation attempt, the attempts that
\* raised included, while the loop runs and in the returned dict; a read
\* timeout followed by a final response gives iteration_count 2.
C7_CountsAttempts ==
    /\ iteration_count = Len(Converses)
    /\ pc = "done" => result.iteration_count = Len(Converses)
    /\ (/\ pc = "done"
        /\ Len(Converses) = 2
        /\ Converses[1].outcome \in TimeoutNames
        /\ Converses[2].outcome = "final") => result.iteration_count = 2

C7_Witness ==
    /\ pc = "done"
    /\ calls = <<[op |-> "converse", outcome |-> "timeout"],
                 [op |-> "sleep", ms |-> 5000],
                 [op |-> "converse", outcome |-> "final"]>>
    /\ result.iteration_count = 2
    /\ result.report = TextOf("final")

OneToolRound ==
    /\ pc = "done"
    /\ Len(Converses) = 2
    /\ Converses[1].outcome = "tool"
    /\ Converses[2].outcome \in {"final", "final_trailing"}

\* C8: a well-formed tool directive followed by a final report gives
\* iteration_count 2, exactly one ToolCallRecord, a full_context of exactly the
\* four entries prompt, model response, tool execution, model response, and
\* exactly one tool invocation, made between the two LLM calls.
C8_OneToolRound ==
    OneToolRound =>
        /\ result.iteration_count = 2
        /\ Len(result.tool_calls) = 1
        /\ Len(result.full_context) = 4
        /\ [i \in 1..4 |-> result.full_context[i].role]
              = <<"user", "assistant", "tool_execution", "assistant">>
        /\ result.full_context[1].content = tool_prompt
        /\ Len(Invokes) = 1
        /\ [i \in 1..Len(calls) |-> calls[i].op] = <<"converse", "invoke", "sleep", "converse">>

NoDirectiveNames == {"final", "empty"}

FailureText(t) ==
    IF t = "non200" THEN "Tool execution failed with status 500"
    ELSE "Tool execution error: " \o InvokeError.str

\* C10: a tool dispatch that fails (non-200 StatusCode or an exception of the
\* invocation) never takes the fallback-error path: the step appends one user
\* message carrying 'Success: False' and the failure text and goes back to the
\* head of the loop without returning; a final report that follows is returned
\* as the report.
C10_ToolFailureTolerated ==
    /\ [][pc = "dispatch" /\ calls'[Len(calls) + 1].outcome \in FailedToolNames =>
            /\ pc' = "loop"
            /\ result' = NotReturned
            /\ escaped' = NoException
            /\ iteration' = iteration + 1
            /\ Len(messages') = Len(messages) + 1
            /\ messages'[Len(messages')].role = "user"
            /\ "Success: False" \in Range(messages'[Len(messages')].content)
            /\ FailureText(calls'[Len(calls) + 1].outcome)
                  \in Range(messages'[Len(messages')].content)]_vars
    /\ [](pc = "done" /\ Outcomes(Invokes) \cap FailedToolNames # {}
             /\ calls[Len(calls)] = [op |-> "converse", outcome |-> "final"]
          => result.report = TextOf("final"))

C10_Witness ==
    /\ pc = "done"
    /\ Outcomes(Invokes) = FailedToolNames
    /\ calls[Len(calls)] = [op |-> "converse", outcome |-> "final"]
    /\ result.report = TextOf("final")
    /\ Len(SelectSeq(messages, LAMBDA m : "Success: False" \in Range(m.content))) = 2

ToolExecutions(ctx) == SelectSeq(ctx, LAMBDA c : c.role = "tool_execution")
AssistantEntries(ctx) == SelectSeq(ctx, LAMBDA c : c.role = "assistant")
ToolResultMessages ==
    SelectSeq(messages, LAMBDA m : m.role = "user" /\ Len(m.content) > 0
                                     /\ m.content[1] = "Tool execution result:")
CorrectiveMessages(msgs) ==
    SelectSeq(msgs, LAMBDA m :
        m.role = "user" /\ m.content =
            <<"Tool call detected but no code block found. Please provide the code in a markdown code fence.">>)
IsMalformed(i) == IsConverse(i) /\ calls[i].outcome = "malformed"

\* C11: a response that opens with the marker but carries no fenced code block
\* invokes no tool, records no tool_execution entry and no ToolCallRecord,
\* appends exactly one corrective user message (after the assistant message)
\* and goes on, without returning, to the next LLM call.
C11_MalformedDirective ==
    /\ [][pc = "loop" /\ calls' = Append(calls, [op |-> "converse", outcome |-> "malformed"]) =>
            /\ ToolExecutions(full_context') = ToolExecutions(full_context)
            /\ Len(full_context') = Len(full_context) + 1
            /\ tool_calls' = tool_calls
            /\ Len(messages') = Len(messages) + 2
            /\ messages'[Len(messages) + 1] = AssistantMsg(<<Marker, "print('no fence')">>)
            /\ Len(CorrectiveMessages(messages')) = Len(CorrectiveMessages(messages)) + 1
            /\ messages'[Len(messages')].role = "user"
            /\ pc' = "loop"
            /\ result' = NotReturned
            /\ iteration' = iteration + 1]_vars
    /\ [](\A i \in 1..(Len(calls) - 1) : IsMalformed(i) => IsConverse(i + 1))

C11_Witness ==
    /\ pc = "done"
    /\ calls = <<[op |-> "converse", outcome |-> "malformed"],
                 [op |-> "converse", outcome |-> "final"]>>
    /\ Len(messages) = 4
    /\ Len(CorrectiveMessages(messages)) = 1
    /\ result.tool_calls = <<>>
    /\ Len(result.full_context) = 3
    /\ result.iteration_count = 2

\* C12: in every reachable state the tool_execution entries of full_context,
\* the tool invocations made and the 'Tool execution result' user messages of
\* the conversation are equally many.
C12_ToolBookkeeping ==
    /\ Len(ToolExecutions(full_context)) = Len(Invokes)
    /\ Len(ToolResultMessages) = Len(Invokes)

C12_Witness ==
    /\ pc = "done"
    /\ Len(Invokes) = 2
    /\ Len(ToolExecutions(full_context)) = 2
    /\ Len(ToolResultMessages) = 2
    /\ FailedToolNames \subseteq Outcomes(Invokes)
    /\ "malformed" \in Outcomes(Converses)

\* C13: the length of tool_calls equals the number of tool_execution entries
\* of full_context, whatever the outcome of the tool invocations.
C13_RecordPerExecution ==
    Len(tool_calls) = Len(ToolExecutions(full_context))

PromptEntry == [role |-> "user", content |-> tool_prompt]
Answered == SelectSeq(Converses, LAMBDA c : c.outcome \in LLMResponses)

\* C14: on every return path the returned full_context is the complete audit
\* trace: it begins with the prompt entry, holds one assistant entry for each
\* model response received and one tool_execution entry for each tool
\* invocation, and is the trace the loop built, in its order.
C14_CompleteTrace ==
    pc = "done" =>
        /\ Len(result.full_context) >= 1
        /\ result.full_context[1] = PromptEntry
        /\ Len(AssistantEntries(result.full_context)) = Len(Answered)
        /\ Len(ToolExecutions(result.full_context)) = Len(Invokes)
        /\ result.full_context = full_context

RECURSIVE FirstNonBlank(_)
FirstNonBlank(text) ==
    IF text = <<>> THEN ""
    ELSE IF Head(text) # "" THEN Head(text) ELSE FirstNonBlank(Tail(text))

OpensAsDirective(o) ==
    FirstNonBlank(TextOf(o)) \in {"TOOL: python_executor", "tool: python_executor"}

\* the report a response that carries no opening directive is returned as
ReportFor(o) ==
    IF o = "empty" THEN <<"Investigation completed but no analysis was generated.">>
    ELSE <<"### Analysis", "Root cause: the function timed out">>

C21_PrefacedDirective ==
    /\ (Len(calls) = 1 /\ calls[1] = [op |-> "converse", outcome |-> "tool_prefaced"]) =>
          pc = "dispatch" /\ code = ToolCode
    /\ (Len(calls) >= 2 /\ calls[1] = [op |-> "converse", outcome |-> "tool_prefaced"]) =>
          calls[2].op = "invoke"
    /\ (pc = "done" /\ Len(Converses) = 2 /\ Converses[1].outcome = "tool_prefaced"
           /\ Converses[2].outcome = "final") =>
          /\ result.iteration_count = 2
          /\ Len(result.tool_calls) = 1
          /\ Len(Invokes) = 1

IsMarkerLine(line) == line \in {"TOOL: python_executor", "tool: python_executor"}

RECURSIVE BeforeMarker(_)
BeforeMarker(text) ==
    IF text = <<>> \/ IsMarkerLine(Head(text)) THEN <<>>
    ELSE <<Head(text)>> \o BeforeMarker(Tail(text))

RECURSIVE TrimLeft(_)
TrimLeft(text) == IF text # <<>> /\ Head(text) = "" THEN TrimLeft(Tail(text)) ELSE text

RECURSIVE TrimRight(_)
TrimRight(text) ==
    IF text # <<>> /\ text[Len(text)] = "" THEN TrimRight(SubSeq(text, 1, Len(text) - 1))
    ELSE text

Trimmed(text) == TrimRight(TrimLeft(text))
WithTrailingDirective == {"final_trailing", "final_fenced", "tool_prefaced"}
TrailingLines == {"print('more')", "I will check further.", "print('Checking current config')",
                  "More to come."} \cup Range(ToolCode)
AcceptedAsFinal(o) ==
    /\ pc = "done"
    /\ result.full_context # <<>>
    /\ calls[Len(calls)] = [op |-> "converse", outcome |-> o]

\* C22: a response accepted as the final report that ends in a marker line, a
\* fenced python block and a trailer is returned as the trimmed text before
\* the marker: no marker, no line of the trailing block and no trailer is
\* left, and the fenced blocks of the report itself are kept as they are; a
\* response without a trailing directive is returned unchanged.
C22_TrailingDirectiveRemoved ==
    /\ \A o \in WithTrailingDirective :
          AcceptedAsFinal(o) =>
              /\ result.report = Trimmed(BeforeMarker(TextOf(o)))
              /\ Range(result.report) \cap (TrailingLines \cup {Marker}) = {}
    /\ AcceptedAsFinal("final_fenced") =>
          SubSeq(result.report, 3, 5) = <<FenceOpen, "TIMEOUT = 60", FenceClose>>
    /\ AcceptedAsFinal("final") =>
          result.report = <<"### Analysis", "Root cause: the function timed out">>

C22_Witness ==
    /\ AcceptedAsFinal("final_fenced")
    /\ result.report = <<"### Analysis", "Apply this configuration:", FenceOpen, "TIMEOUT = 60",
                         FenceClose, "Use the above configuration.">>
    /\ Len(result.full_context[Len(result.full_context)].content) = 13

\* C23: for a model id containing 'nova', a first model response without a
\* directive, no tool having been invoked, is never accepted as the final
\* report: the instruction to investigate first is appended and the model is
\* called again.
C23_NovaMustInvestigate ==
    (/\ is_nova
     /\ pc = "done"
     /\ result.full_context # <<>>
     /\ Len(Answered) >= 1
     /\ Answered[1].outcome \in {"final", "final_trailing", "empty"}) =>
        /\ Len(Answered) >= 2
        /\ UserMsg(ForceText) \in Range(messages)

\* C24: for a model id without 'nova', an empty first model response ends the
\* investigation: no further LLM call and no tool invocation are made and the
\* default report is returned.
C24_EmptyResponse ==
    (~is_nova /\ Len(Answered) >= 1 /\ Answered[1].outcome = "empty") =>
        /\ pc = "done"
        /\ Len(Answered) = 1
        /\ calls[Len(calls)] = [op |-> "converse", outcome |-> "empty"]
        /\ Invokes = <<>>
        /\ result.tool_calls = <<>>
        /\ result.report = <<"Investigation completed but no analysis was generated.">>

C24_Witness ==
    /\ ~is_nova
    /\ pc = "done"
    /\ calls = <<[op |-> "converse", outcome |-> "empty"]>>
    /\ result.iteration_count = 1
    /\ result.report = <<"Investigation completed but no analysis was generated.">>
    /\ Len(result.full_context) = 2

(***************************************************************************)
(* triage_handler.py: handler and should_investigate, for invocations that *)
(* run side by side against one DynamoDB table.                            *)
(***************************************************************************)
MaxTicks == 2

investigation_window_hours == 1
\* investigation_window_hours * 3600
WindowSeconds == investigation_window_hours * 3600
\* int(investigation_window_hours * 3600)
ttl_seconds == WindowSeconds
HalfWindow == WindowSeconds \div 2
\* the time a call to DynamoDB takes, in seconds
Latency == 1

OrchIdle ==
    /\ is_nova = FALSE
    /\ steady = "final"
    /\ steadyTool = "ok"
    /\ alphabet = {}
    /\ free_head = 0
    /\ messages = <<>>
    /\ full_context = <<>>
    /\ tool_calls = <<>>
    /\ iteration_count = 0
    /\ iteration = 0
    /\ retry_count = 0
    /\ final_response = <<>>
    /\ code = <<>>
    /\ pc = "idle"
    /\ result = NotReturned
    /\ escaped = NoException
    /\ calls = <<>>

\* an item left by an investigation made at time t
ItemAt(t) == [present |-> TRUE, timestamp |-> t, ttl |-> t + ttl_seconds]

\* the invocations whose environment can fail after the deduplication check
Faulty == {"h1"}

BedrockError ==
    [type |-> "Exception", bases |-> {"Exception"}, str |-> "Bedrock error"]
ConfigError ==
    [type |-> "KeyError", bases |-> {"KeyError", "Exception"}, str |-> "'BEDROCK_MODEL_ID'"]
SnsError ==
    [type |-> "Exception", bases |-> {"Exception"}, str |-> "SNS error"]

ReportText == <<"### Analysis", "Root cause: the function timed out">>
ReportLocation == "s3://reports-bucket/reports/alarm_report.txt"

\* a fallback that names neither the failure nor the alarm
FallbackAnalysis_bare(e, name, state) == <<"Investigation failed">>

\* lines 235-254
FallbackAnalysis(e, name, state) ==
    <<"", "Investigation Error - Bedrock Unavailable", "", 
      "An error occurred while invoking AI model for investigation:", e.str, "",
      "Manual Investigation Required:", "", "Alarm Details:",
      "- Name: " \o name, "- State: " \o state, "",
      "This is an automated fallback message when AI investigation fails.">>

\* format_notification (lines 333-371)
format_notification(name, state, text, location) ==
    <<"CloudWatch Alarm Investigation Results", "", "Alarm: " \o name, "State: " \o state>>
        \o (IF location # "None" THEN <<"Investigation Files:", "  Report: " \o location>>
            ELSE <<>>)
        \o <<"--------------------------------------", "">> \o text

\* the Message of lines 308-320
ErrorMessage(name, state, e) ==
    <<"", "CloudWatch Alarm Investigation Error", "", "Alarm: " \o name, "State: " \o state, "",
      "Error Details:", e.str>>

Effect(op, ok, body) == [op |-> op, ok |-> ok, body |-> body]

\* the bodies handler returns (lines 185-191, 196-203, 277-299, 325-331)
HandlerReturn(status, message, complete, duplicate, err, location) ==
    [statusCode |-> status, message |-> message, investigation_complete |-> complete,
     duplicate |-> duplicate, error |-> err, report_location |-> location]

InitDedup ==
    /\ OrchIdle
    /\ SandboxIdle
    /\ table \in [Alarms -> {NoItem, ItemAt(0)}]
    /\ now = 0
    /\ hpc = [h \in Handlers |-> "start"]
    /\ alarm_name \in [Handlers -> Alarms]
    /\ alarm_state \in [Handlers -> {"ALARM", "OK"}]
    /\ response = [h \in Handlers |-> NoItem]
    /\ should_process = [h \in Handlers |-> NoAnswer]
    /\ HandlerRest

\* the clock moves on between any two steps
Tick ==
    /\ now \div HalfWindow < MaxTicks
    /\ now' = now + HalfWindow
    /\ UNCHANGED <<table, hpc, alarm_name, alarm_state, response, should_process, effects,
                   analysis, report_location, error, handler_response, interleaved>>
    /\ UNCHANGED <<orchVars, sandboxVars>>

\* an event is skipped whatever its state
Skips_never(state) == FALSE

\* if alarm_state != 'ALARM'  (line 183)
Skips(state) == state # "ALARM"

\* handler, lines 183-191: an event whose state is not ALARM is skipped
SkipNonAlarm(h) ==
    /\ hpc[h] = "start"
    /\ Skips(alarm_state[h])
    /\ hpc' = [hpc EXCEPT ![h] = "skipped"]
    /\ handler_response' = [handler_response EXCEPT ![h] =
           HandlerReturn(200, "Skipped non-alarm state: " \o alarm_state[h], FALSE, FALSE,
                         "", "None")]
    /\ UNCHANGED <<table, now, alarm_name, alarm_state, response, should_process, effects,
                   analysis, report_location, error, interleaved>>
    /\ UNCHANGED <<orchVars, sandboxVars>>

\* should_investigate, line 139: table.get_item
GetItem(h) ==
    /\ hpc[h] = "start"
    /\ ~Skips(alarm_state[h])
    /\ response' = [response EXCEPT ![h] = table[alarm_name[h]]]
    /\ effects' = [effects EXCEPT ![h] = Append(@, Effect("dynamodb.get_item", TRUE, <<>>))]
    /\ now' = now + Latency
    /\ interleaved' = (interleaved \/ \E g \in Handlers \ {h} : hpc[g] \in {"check", "put"})
    /\ hpc' = [hpc EXCEPT ![h] = "check"]
    /\ UNCHANGED <<table, alarm_name, alarm_state, should_process, analysis, report_location,
                   error, handler_response>>
    /\ UNCHANGED <<orchVars, sandboxVars>>

\* every stored item taken as fresh, whatever its age
IsFresh_anyItem(item, t) == item.present

\* lines 141-145: an item whose timestamp is less than the window old
IsFresh(item, t) == item.present /\ t - item.timestamp < WindowSeconds

\* should_investigate, lines 141-147, and handler, lines 194-203
CheckWindow(h) ==
    /\ hpc[h] = "check"
    /\ IF IsFresh(response[h], now)
       THEN /\ should_process' = [should_process EXCEPT ![h] =
                   [should |-> FALSE, time_since |-> now - response[h].timestamp,
                    at |-> now, failed |-> FALSE]]
            /\ hpc' = [hpc EXCEPT ![h] = "duplicate"]
            /\ handler_response' = [handler_response EXCEPT ![h] =
                   HandlerReturn(200, "Already investigated", FALSE, TRUE, "", "None")]
       ELSE /\ hpc' = [hpc EXCEPT ![h] = "put"]
            /\ UNCHANGED <<should_process, handler_response>>
    /\ UNCHANGED <<table, now, alarm_name, alarm_state, response, effects, analysis,
                   report_location, error, interleaved>>
    /\ UNCHANGED <<orchVars, sandboxVars>>

\* should_investigate, lines 149-157: table.put_item, with no condition
PutItem(h) ==
    /\ hpc[h] = "put"
    /\ table' = [table EXCEPT ![alarm_name[h]] = ItemAt(now)]
    /\ effects' = [effects EXCEPT ![h] = Append(@, Effect("dynamodb.put_item", TRUE, <<>>))]
    /\ now' = now + Latency
    /\ should_process' = [should_process EXCEPT ![h] =
           [should |-> TRUE, time_since |-> 0, at |-> now, failed |-> FALSE]]
    /\ hpc' = [hpc EXCEPT ![h] = "investigate"]
    /\ UNCHANGED <<alarm_name, alarm_state, response, analysis, report_location, error,
                   handler_response, interleaved>>
    /\ UNCHANGED <<orchVars, sandboxVars>>

\* a store error that ends the invocation
FailOpen_closed(h) == "duplicate"

\* should_investigate, lines 159-161, and handler, line 194: where a store
\* error sends the invocation
FailOpen(h) == "investigate"

\* should_investigate, lines 159-161: get_item or put_item raises
DynamoDBError(h) ==
    /\ \/ hpc[h] = "start" /\ ~Skips(alarm_state[h])
       \/ hpc[h] = "put"
    /\ effects' = [effects EXCEPT ![h] = Append(@,
           Effect(IF hpc[h] = "put" THEN "dynamodb.put_item" ELSE "dynamodb.get_item",
                  FALSE, <<>>))]
    /\ should_process' = [should_process EXCEPT ![h] =
           [should |-> FailOpen(h) = "investigate", time_since |-> 0, at |-> now,
            failed |-> TRUE]]
    /\ hpc' = [hpc EXCEPT ![h] = FailOpen(h)]
    /\ UNCHANGED <<table, now, alarm_name, alarm_state, response, analysis, report_location,
                   error, handler_response, interleaved>>
    /\ UNCHANGED <<orchVars, sandboxVars>>

BedrockChoices(h) == IF h \in Faulty THEN {"report", "raises", "config_error"} ELSE {"report"}
S3Choices(h) == IF h \in Faulty THEN {"unset", "fail_1", "fail_2", "fail_3", "ok"} ELSE {"ok"}
SnsChoices(h) == IF h \in Faulty THEN {TRUE, FALSE} ELSE {TRUE}

\* handler, lines 205-256: the client, the prompt and the investigation
Investigate(h) ==
    /\ hpc[h] = "investigate"
    /\ \E o \in BedrockChoices(h) :
         IF o = "config_error"
         THEN /\ error' = [error EXCEPT ![h] = ConfigError]
              /\ hpc' = [hpc EXCEPT ![h] = "failed"]
              /\ UNCHANGED <<effects, analysis>>
         ELSE /\ effects' = [effects EXCEPT ![h] = Append(@,
                     Effect("bedrock.investigate_with_tools", o = "report", <<>>))]
              /\ analysis' = [analysis EXCEPT ![h] =
                     IF o = "report" THEN ReportText
                     ELSE FallbackAnalysis(BedrockError, alarm_name[h], alarm_state[h])]
              /\ hpc' = [hpc EXCEPT ![h] = "save"]
              /\ UNCHANGED error
    /\ UNCHANGED <<table, now, alarm_name, alarm_state, response, should_process,
                   report_location, handler_response, interleaved>>
    /\ UNCHANGED <<orchVars, sandboxVars>>

\* the s3.put_object calls of one save: the report, the full context, the json
S3Writes(o) ==
    CASE o = "unset" -> <<>>
      [] o = "fail_1" -> <<FALSE>>
      [] o = "fail_2" -> <<TRUE, FALSE>>
      [] o = "fail_3" -> <<TRUE, TRUE, FALSE>>
      [] o = "ok" -> <<TRUE, TRUE, TRUE>>

\* a failed save that leaves the handler in its except clause
AfterSave_raises(o) == IF o = "ok" THEN "publish" ELSE "failed"

\* save_enhanced_reports_to_s3 returns also when a write raised (lines 126-128)
AfterSave(o) == "publish"

\* save_enhanced_reports_to_s3 (lines 14-128) as handler calls it (lines 258-261)
SaveReports(h) ==
    /\ hpc[h] = "save"
    /\ \E o \in S3Choices(h) :
         /\ effects' = [effects EXCEPT ![h] =
                @ \o [i \in 1..Len(S3Writes(o)) |->
                         Effect("s3.put_object", S3Writes(o)[i], analysis[h])]]
         /\ report_location' = [report_location EXCEPT ![h] =
                IF o = "ok" THEN ReportLocation ELSE "None"]
         /\ hpc' = [hpc EXCEPT ![h] = AfterSave(o)]
         /\ error' = [error EXCEPT ![h] =
                IF AfterSave(o) = "failed"
                THEN [type |-> "ClientError", bases |-> {"ClientError", "Exception"},
                      str |-> "S3 error"]
                ELSE @]
    /\ UNCHANGED <<table, now, alarm_name, alarm_state, response, should_process, analysis,
                   handler_response, interleaved>>
    /\ UNCHANGED <<orchVars, sandboxVars>>

\* a publish failure that is logged and passed over
AfterPublish_swallowed(ok) == "returned"

\* sns.publish raising leaves the try block for the except of line 301
AfterPublish(ok) == IF ok THEN "returned" ELSE "failed"

\* handler, lines 263-299: the notification and the return
Publish(h) ==
    /\ hpc[h] = "publish"
    /\ \E ok \in SnsChoices(h) :
         /\ effects' = [effects EXCEPT ![h] = Append(@,
                Effect("sns.publish investigation", ok,
                       format_notification(alarm_name[h], alarm_state[h], analysis[h],
                                           report_location[h])))]
         /\ hpc' = [hpc EXCEPT ![h] = AfterPublish(ok)]
         /\ IF AfterPublish(ok) = "returned"
            THEN /\ handler_response' = [handler_response EXCEPT ![h] =
                        HandlerReturn(200, "", TRUE, FALSE, "", report_location[h])]
                 /\ UNCHANGED error
            ELSE /\ error' = [error EXCEPT ![h] = SnsError]
                 /\ UNCHANGED handler_response
    /\ UNCHANGED <<table, now, alarm_name, alarm_state, response, should_process, analysis,
                   report_location, interleaved>>
    /\ UNCHANGED <<orchVars, sandboxVars>>

\* handler, lines 301-331: the error notification and the return
ErrorNotify(h) ==
    /\ hpc[h] = "failed"
    /\ \E ok \in SnsChoices(h) :
         effects' = [effects EXCEPT ![h] = Append(@,
             Effect("sns.publish error", ok,
                    ErrorMessage(alarm_name[h], alarm_state[h], error[h])))]
    /\ handler_response' = [handler_response EXCEPT ![h] =
           HandlerReturn(500, "", FALSE, FALSE, error[h].str, "None")]
    /\ hpc' = [hpc EXCEPT ![h] = "returned"]
    /\ UNCHANGED <<table, now, alarm_name, alarm_state, response, should_process, analysis,
                   report_location, error, interleaved>>
    /\ UNCHANGED <<orchVars, sandboxVars>>

NextDedup ==
    \/ Tick
    \/ \E h \in Handlers : SkipNonAlarm(h)
    \/ \E h \in Handlers : GetItem(h)
    \/ \E h \in Handlers : CheckWindow(h)
    \/ \E h \in Handlers : PutItem(h)
    \/ \E h \in Handlers : DynamoDBError(h)
    \/ \E h \in Handlers : Investigate(h)
    \/ \E h \in Handlers : SaveReports(h)
    \/ \E h \in Handlers : Publish(h)
    \/ \E h \in Handlers : ErrorNotify(h)

SpecDedup == InitDedup /\ [][NextDedup]_vars

Abs(n) == IF n < 0 THEN 0 - n ELSE n

\* C15: of two invocations of the handler for the same alarm name, whatever
\* their interleaving, at most one is answered should_investigate = True and
\* runs an investigation within one window (DynamoDB answering every call).
C15_AtMostOneFresh ==
    \A g, h \in Handlers :
        (/\ g # h
         /\ alarm_name[g] = alarm_name[h]
         /\ should_process[g].should
         /\ should_process[h].should
         /\ ~should_process[g].failed /\ ~should_process[h].failed)
        => Abs(should_process[g].at - should_process[h].at) >= WindowSeconds

EffectsOf(h, op) == SelectSeq(effects[h], LAMBDA e : e.op = op)
Notifications(h) == EffectsOf(h, "sns.publish investigation")
ErrorNotifications(h) == EffectsOf(h, "sns.publish error")
S3Puts(h) == EffectsOf(h, "s3.put_object")
HasReturned(h) == handler_response[h] # NotReturned
PublishFailed(h) == \E i \in 1..Len(Notifications(h)) : ~Notifications(h)[i].ok

\* C25: when publishing the investigation notification fails the handler
\* returns statusCode 500 with the publish error's text, and never 200 with
\* investigation_complete, whether or not the error notification that follows
\* can be published.
C25_PublishFailureVisible ==
    \A h \in Handlers :
        PublishFailed(h) =>
            /\ hpc[h] \in {"failed", "returned"}
            /\ hpc[h] = "returned" =>
                  /\ handler_response[h].statusCode = 500
                  /\ handler_response[h].error = "SNS error"
                  /\ ~handler_response[h].investigation_complete
                  /\ Len(ErrorNotifications(h)) = 1

C25_Witness ==
    /\ hpc["h1"] = "returned"
    /\ PublishFailed("h1")
    /\ ~ErrorNotifications("h1")[1].ok
    /\ handler_response["h1"].statusCode = 500
    /\ handler_response["h1"].error = "SNS error"
    /\ Len(S3Puts("h1")) = 3

SaveDone(h) == report_location[h] # "unset"
SaveFailed(h) ==
    SaveDone(h) /\ (Len(S3Puts(h)) < 3 \/ \E i \in 1..Len(S3Puts(h)) : ~S3Puts(h)[i].ok)

\* C26: when an S3 write of save_enhanced_reports_to_s3 raises, or the bucket
\* is not configured, the function returns (None, None, None) to the handler,
\* which goes on to publish the notification, once, and, the publish
\* succeeding, returns statusCode 200.
C26_PersistenceFailureTolerated ==
    \A h \in Handlers :
        SaveFailed(h) =>
            /\ report_location[h] = "None"
            /\ hpc[h] \in {"publish", "failed", "returned"}
            /\ error[h] \in {NoException, SnsError}
            /\ hpc[h] = "returned" =>
                  /\ Len(Notifications(h)) = 1
                  /\ "Investigation Files:" \notin Range(Notifications(h)[1].body)
                  /\ Notifications(h)[1].ok =>
                        /\ handler_response[h].statusCode = 200
                        /\ handler_response[h].investigation_complete
                        /\ ErrorNotifications(h) = <<>>

C26_Witness ==
    /\ hpc["h1"] = "returned"
    /\ [i \in 1..Len(S3Puts("h1")) |-> S3Puts("h1")[i].ok] = <<TRUE, FALSE>>
    /\ report_location["h1"] = "None"
    /\ Len(Notifications("h1")) = 1
    /\ handler_response["h1"].statusCode = 200

InvestigationRaised(h) ==
    \E i \in 1..Len(effects[h]) :
        effects[h][i].op = "bedrock.investigate_with_tools" /\ ~effects[h][i].ok

\* C27: when investigate_with_tools raises, the analysis is the fallback
\* 'Investigation Error - Bedrock Unavailable' with the error's text; the
\* reports are saved with it, one notification carrying it is published and,
\* the publish succeeding, the handler returns statusCode 200 with
\* investigation_complete true.
C27_BedrockFailureFallback ==
    \A h \in Handlers :
        InvestigationRaised(h) =>
            /\ "Investigation Error - Bedrock Unavailable" \in Range(analysis[h])
            /\ "Bedrock error" \in Range(analysis[h])
            /\ \A i \in 1..Len(S3Puts(h)) : S3Puts(h)[i].body = analysis[h]
            /\ hpc[h] = "returned" =>
                  /\ SaveDone(h)
                  /\ Len(Notifications(h)) = 1
                  /\ Range(analysis[h]) \subseteq Range(Notifications(h)[1].body)
                  /\ Notifications(h)[1].ok =>
                        /\ handler_response[h].statusCode = 200
                        /\ handler_response[h].investigation_complete

C27_Witness ==
    /\ hpc["h1"] = "returned"
    /\ InvestigationRaised("h1")
    /\ Len(S3Puts("h1")) = 3
    /\ report_location["h1"] = "s3://reports-bucket/reports/alarm_report.txt"
    /\ Len(Notifications("h1")) = 1
    /\ "Investigation Error - Bedrock Unavailable" \in Range(Notifications("h1")[1].body)
    /\ handler_response["h1"].statusCode = 200
    /\ handler_response["h1"].investigation_complete

StoreFailed(h, op) == \E i \in 1..Len(EffectsOf(h, op)) : ~EffectsOf(h, op)[i].ok
Proceeded == {"investigate", "save", "publish", "failed", "returned"}

\* C28: when the table raises on the read or on the write, should_investigate
\* returns (True, 0) and the handler goes on to the investigation.
C28_FailOpen ==
    \A h \in Handlers :
        StoreFailed(h, "dynamodb.get_item") \/ StoreFailed(h, "dynamodb.put_item") =>
            /\ should_process[h].should
            /\ should_process[h].time_since = 0
            /\ hpc[h] \in Proceeded
            /\ hpc[h] # "duplicate"
            /\ hpc[h] = "returned" =>
                  \/ Len(EffectsOf(h, "bedrock.investigate_with_tools")) = 1
                  \/ error[h].type = "KeyError"

C28_Witness ==
    /\ hpc["h2"] = "returned"
    /\ StoreFailed("h2", "dynamodb.put_item")
    /\ hpc["h1"] = "returned"
    /\ StoreFailed("h1", "dynamodb.get_item")
    /\ Len(EffectsOf("h1", "bedrock.investigate_with_tools")) = 1
    /\ handler_response["h2"].investigation_complete

\* C29: for calls of should_investigate made one after the other: a stored
\* timestamp younger than the window gives (False, elapsed) with elapsed > 0
\* and no write; no item, or a timestamp at least the window old, gives
\* (True, 0) and a new item with the current time as timestamp and the
\* current time plus the window as ttl.
C29_WindowSequential ==
    /\ [][\A h \in Handlers :
            (~interleaved' /\ hpc[h] = "check" /\ hpc'[h] # "check") =>
               /\ table' = table
               /\ EffectsOf(h, "dynamodb.put_item")' = <<>>
               /\ IF table[alarm_name[h]].present
                       /\ now - table[alarm_name[h]].timestamp < 3600
                  THEN /\ hpc'[h] = "duplicate"
                       /\ ~should_process'[h].should
                       /\ should_process'[h].time_since = now - table[alarm_name[h]].timestamp
                       /\ should_process'[h].time_since > 0
                  ELSE hpc'[h] = "put"]_vars
    /\ [][\A h \in Handlers :
            (hpc[h] = "put" /\ hpc'[h] # "put" /\ ~StoreFailed(h, "dynamodb.put_item")') =>
               /\ should_process'[h].should
               /\ should_process'[h].time_since = 0
               /\ table'[alarm_name[h]] = [present |-> TRUE, timestamp |-> now, ttl |-> now + 3600]
               /\ \A a \in Alarms \ {alarm_name[h]} : table'[a] = table[a]]_vars
    /\ [](\A h \in Handlers : hpc[h] = "duplicate" => EffectsOf(h, "dynamodb.put_item") = <<>>)

C29_Witness ==
    /\ ~interleaved
    /\ alarm_name["h1"] = alarm_name["h2"]
    /\ should_process["h1"].should /\ ~should_process["h1"].failed
    /\ should_process["h1"].at >= 3600
    /\ hpc["h2"] = "duplicate"
    /\ should_process["h2"].time_since > 0
    /\ table[alarm_name["h1"]].timestamp = should_process["h1"].at
    /\ table[alarm_name["h1"]].ttl = should_process["h1"].at + 3600

\* C30: for an event whose state is not ALARM the handler returns statusCode
\* 200 with a 'Skipped non-alarm state' message and does nothing else: it
\* makes no call to DynamoDB, Bedrock, S3 or SNS and the table is left as
\* it was.
C30_NonAlarmSkipped ==
    /\ [](\A h \in Handlers :
            alarm_state[h] # "ALARM" =>
               /\ effects[h] = <<>>
               /\ hpc[h] \in {"start", "skipped"}
               /\ hpc[h] = "skipped" =>
                     /\ handler_response[h].statusCode = 200
                     /\ handler_response[h].message = "Skipped non-alarm state: OK"
                     /\ ~handler_response[h].investigation_complete)
    /\ [][\A h \in Handlers :
            (alarm_state[h] # "ALARM" /\ hpc'[h] # hpc[h]) =>
               /\ hpc'[h] = "skipped"
               /\ table' = table
               /\ effects' = effects
               /\ should_process' = should_process]_vars

C30_Witness ==
    /\ alarm_state["h1"] = "OK"
    /\ hpc["h1"] = "skipped"
    /\ handler_response["h1"].statusCode = 200
    /\ effects["h1"] = <<>>
    /\ hpc["h2"] = "returned"
    /\ Len(Notifications("h2")) = 1

(***************************************************************************)
(* tool_handler.py: lambda_handler, remove_imports and execute_python_code,*)
(* for calls made one after the other or side by side in one process.      *)
(* A command is a sequence of statements.                                  *)
(***************************************************************************)
MaxStmts == 2

\* top-level import statements: plain, multi-name, from-import with an alias
ImportStmts == {"import boto3", "import os, sys", "from datetime import datetime as dt"}
\* a line ast.parse and compile reject
InvalidStmts == {"this is not valid python syntax!!!"}
\* assignments to the namespace variable 'result'
ResultStmts ==
    {"result = \"ok\"", "result = {'a': 1}", "result = {(1, 2): 3}", "result = None"}
PrintStmts == {"print('a')", "print('b')"}
RaiseStmts == {"raise ValueError('boom')", "raise SystemExit(1)", "raise KeyboardInterrupt()"}
Stmts == {"import boto3", "print('a')", "sys.stdout = None"} \cup RaiseStmts

\* the commands of the call c1: every sequence of at most MaxStmts statements
Commands == UNION {[1..n -> Stmts] : n \in 0..MaxStmts}
\* the commands of the call c2
OtherCommands ==
    {<<"print('b')">>, <<"import boto3", "print('b')", "raise ValueError('boom')">>}

\* the commands of the call c1 under SpecEngine
EngineStmts ==
    ImportStmts \cup InvalidStmts \cup ResultStmts \cup {"print('a')", "raise ValueError('boom')"}
EngineCommands == UNION {[1..n -> EngineStmts] : n \in 0..MaxStmts}

ValueErrorExc ==
    [type |-> "ValueError", bases |-> {"ValueError", "Exception", "BaseException"},
     str |-> "boom"]
SystemExitExc ==
    [type |-> "SystemExit", bases |-> {"SystemExit", "BaseException"}, str |-> "1"]
KeyboardInterruptExc ==
    [type |-> "KeyboardInterrupt", bases |-> {"KeyboardInterrupt", "BaseException"}, str |-> ""]

\* what ast.parse, and compile inside exec, raise for an invalid line
SyntaxErrorExc ==
    [type |-> "SyntaxError", bases |-> {"SyntaxError", "Exception", "BaseException"},
     str |-> "invalid syntax (<unknown>, line 1)"]

ExcOf(stmt) ==
    CASE stmt = "raise ValueError('boom')" -> ValueErrorExc
      [] stmt = "raise SystemExit(1)" -> SystemExitExc
      [] stmt = "raise KeyboardInterrupt()" -> KeyboardInterruptExc

\* what print(...) writes
LineOf(stmt) == IF stmt = "print('a')" THEN "a" ELSE "b"

CountStr(n) == IF n < 10 THEN <<"0", "1", "2", "3", "4", "5", "6", "7", "8", "9">>[n + 1] ELSE "many"

\* ast.parse(code) raises SyntaxError (line 107)
ParseFails(cmd) == \E i \in 1..Len(cmd) : cmd[i] \in InvalidStmts

\* the entries lines 111-121 append for one import statement: one per alias,
\* without the alias' asname
ImportEntries(stmt) ==
    CASE stmt = "import boto3" -> <<"import boto3">>
      [] stmt = "import os, sys" -> <<"import os", "import sys">>
      [] stmt = "from datetime import datetime as dt" -> <<"from datetime import datetime">>
      [] OTHER -> <<>>

\* ast.unparse of one statement (line 128)
Unparse(stmt) == IF stmt = "result = \"ok\"" THEN "result = 'ok'" ELSE stmt

RECURSIVE Flatten(_)
Flatten(seqs) == IF seqs = <<>> THEN <<>> ELSE Head(seqs) \o Flatten(Tail(seqs))

\* one entry per removed statement
RemovedImports_perStatement(cmd) == SelectSeq(cmd, LAMBDA st : st \in ImportStmts)

\* lines 109-121
RemovedImports(cmd) == Flatten([i \in 1..Len(cmd) |-> ImportEntries(cmd[i])])

\* a parse failure answered with empty code, so that nothing is left to fail
ParseFailure_swallowed(cmd) == [cleaned_code |-> <<>>, removed_imports |-> <<>>]

\* except SyntaxError (lines 130-133)
ParseFailure(cmd) == [cleaned_code |-> cmd, removed_imports |-> <<>>]

\* remove_imports (lines 95-133)
remove_imports(cmd) ==
    IF ParseFails(cmd)
    THEN ParseFailure(cmd)
    ELSE LET kept == SelectSeq(cmd, LAMBDA st : st \notin ImportStmts)
         IN  [cleaned_code |-> [i \in 1..Len(kept) |-> Unparse(kept[i])],
              removed_imports |-> RemovedImports(cmd)]

\* the value an assignment to 'result' leaves in the namespace
ValueOf(stmt) ==
    CASE stmt = "result = 'ok'" ->
             [is_none |-> FALSE, kind |-> "str", str |-> <<"ok">>, json |-> <<"\"ok\"">>]
      [] stmt = "result = {'a': 1}" ->
             [is_none |-> FALSE, kind |-> "dict", str |-> <<"{'a': 1}">>,
              json |-> <<"{", "  \"a\": 1", "}">>]
      [] stmt = "result = {(1, 2): 3}" ->
             \* json.dumps raises TypeError for a key that is a tuple
             [is_none |-> FALSE, kind |-> "dict", str |-> <<"{(1, 2): 3}">>, json |-> <<>>]
      [] OTHER -> NoneValue

\* what json.dumps raises at line 333 for a dict it cannot serialise
TypeErrorExc ==
    [type |-> "TypeError", bases |-> {"TypeError", "Exception", "BaseException"},
     str |-> "keys must be str, int, float, bool or None, not tuple"]

\* json.dumps(result_value, indent=2, default=str) raises
DumpsRaises(value) == ~value.is_none /\ value.kind \in {"dict", "list"} /\ value.json = <<>>

\* a result left out of every outcome
ResultStr_never(value) == NoResult

\* lines 330-337: result_str
ResultStr(value) ==
    IF ~value.is_none
    THEN IF value.kind \in {"dict", "list"}
         THEN [is_none |-> FALSE, text |-> value.json]
         ELSE [is_none |-> FALSE, text |-> value.str]
    ELSE NoResult

\* lines 152-158
import_notice(removed_imports) ==
    IF removed_imports = <<>> THEN <<>>
    ELSE <<"Note: Removed " \o CountStr(Len(removed_imports))
               \o " import statement(s) for compatibility:">>
         \o [i \in 1..Len(removed_imports) |-> "  - " \o removed_imports[i]]
         \o <<"All required modules are pre-imported.", "">>

\* lines 358-361
error_msg(e) ==
    <<"Error executing Python code: " \o e.str,
      "Traceback (most recent call last):",
      e.type \o ": " \o e.str>>

\* except Exception as e  of execute_python_code (line 354)
EngineCatches(e) == "Exception" \in e.bases

\* except Exception as e  of lambda_handler (line 83)
HandlerCatches(e) == "Exception" \in e.bases

\* a finally block that leaves the streams as it finds them
FinallyStream_kept(old, current) == current

\* the finally block (lines 349-352): sys.stdout = old_stdout, sys.stderr = old_stderr
FinallyStream(old, current) == old

\* the output captured before the failure dropped from the error's outcome
ErrorStdout_dropped(notice, stdout_output) == notice

\* 'stdout': import_notice + stdout_output  (line 377)
ErrorStdout(notice, stdout_output) == notice \o stdout_output

\* lines 58-81: the body lambda_handler returns
HandlerBody(r) ==
    [success |-> r.success,
     output |-> r.stdout \o (IF r.stderr # <<>> THEN <<"[STDERR]">> \o r.stderr ELSE <<>>)
                   \o r.result.text,
     result |-> r.result,
     stdout |-> r.stdout,
     stderr |-> r.stderr]

Ended == {"returned", "raised"}

InitSandbox ==
    /\ OrchIdle
    /\ DedupIdle
    /\ SandboxRest
    /\ command \in {[c \in ExecCalls |-> IF c = "c1" THEN a ELSE b] :
                       a \in Commands, b \in OtherCommands}

\* lambda_handler up to the call (lines 49-55) and execute_python_code up to
\* the namespace (lines 149-308)
Begin(c) ==
    /\ xpc[c] = "idle"
    /\ xpc' = [xpc EXCEPT ![c] = "save"]
    /\ entry_stdio' = [entry_stdio EXCEPT ![c] = <<sys_stdout, sys_stderr>>]
    /\ overlapped' = (overlapped \/ \E d \in ExecCalls \ {c} : xpc[d] \notin Ended \cup {"idle"})
    /\ UNCHANGED <<sys_stdout, sys_stderr, buffers, command, old_stdout, old_stderr, ip,
                   raisedExc, execution_result, lambda_response, printed>>
    /\ UNCHANGED <<namespace, orchVars, dedupVars>>

\* lines 311-312
SaveStdio(c) ==
    /\ xpc[c] = "save"
    /\ old_stdout' = [old_stdout EXCEPT ![c] = sys_stdout]
    /\ old_stderr' = [old_stderr EXCEPT ![c] = sys_stderr]
    /\ xpc' = [xpc EXCEPT ![c] = "redirect"]
    /\ UNCHANGED <<sys_stdout, sys_stderr, buffers, command, ip, raisedExc, execution_result,
                   lambda_response, printed, entry_stdio, overlapped>>
    /\ UNCHANGED <<namespace, orchVars, dedupVars>>

\* lines 313-316
Redirect(c) ==
    /\ xpc[c] = "redirect"
    /\ sys_stdout' = CapturedStdout(c)
    /\ sys_stderr' = CapturedStderr(c)
    /\ ip' = [ip EXCEPT ![c] = 1]
    /\ xpc' = [xpc EXCEPT ![c] = "exec"]
    /\ UNCHANGED <<buffers, command, old_stdout, old_stderr, raisedExc, execution_result,
                   lambda_response, printed, entry_stdio, overlapped>>
    /\ UNCHANGED <<namespace, orchVars, dedupVars>>

\* exec(cleaned_code, namespace) (line 320): the next statement of the code
ExecStmt(c) ==
    /\ xpc[c] = "exec"
    /\ ip[c] <= Len(remove_imports(command[c]).cleaned_code)
    /\ LET cleaned_code == remove_imports(command[c]).cleaned_code
           stmt == cleaned_code[ip[c]]
       IN  IF ParseFails(cleaned_code)
           THEN \* exec compiles the whole code before it runs any of it
                /\ raisedExc' = [raisedExc EXCEPT ![c] = SyntaxErrorExc]
                /\ xpc' = [xpc EXCEPT ![c] = "finally"]
                /\ UNCHANGED <<buffers, printed, sys_stdout, ip, namespace>>
           ELSE /\ IF stmt \in PrintStmts /\ sys_stdout # "None"
                   THEN /\ buffers' = [buffers EXCEPT ![sys_stdout] = Append(@, LineOf(stmt))]
                        /\ printed' = [printed EXCEPT ![c] = Append(@, LineOf(stmt))]
                   ELSE UNCHANGED <<buffers, printed>>
                /\ sys_stdout' = IF stmt = "sys.stdout = None" THEN "None" ELSE sys_stdout
                /\ namespace' = IF stmt \in {Unparse(st) : st \in ResultStmts}
                                 THEN [namespace EXCEPT ![c].result = ValueOf(stmt)]
                                 ELSE namespace
                /\ IF stmt \in RaiseStmts
                   THEN /\ raisedExc' = [raisedExc EXCEPT ![c] = ExcOf(stmt)]
                        /\ xpc' = [xpc EXCEPT ![c] = "finally"]
                        /\ UNCHANGED ip
                   ELSE /\ ip' = [ip EXCEPT ![c] = @ + 1]
                        /\ UNCHANGED <<raisedExc, xpc>>
    /\ UNCHANGED <<sys_stderr, command, old_stdout, old_stderr, execution_result,
                   lambda_response, entry_stdio, overlapped>>
    /\ UNCHANGED <<orchVars, dedupVars>>

\* the code ran to its end: lines 322-346
ExecReturns(c) ==
    /\ xpc[c] = "exec"
    /\ ip[c] > Len(remove_imports(command[c]).cleaned_code)
    /\ sys_stdout' = old_stdout[c]
    /\ sys_stderr' = old_stderr[c]
    /\ IF DumpsRaises(namespace[c].result)
       THEN /\ raisedExc' = [raisedExc EXCEPT ![c] = TypeErrorExc]
            /\ UNCHANGED execution_result
       ELSE /\ execution_result' = [execution_result EXCEPT ![c] =
                   [result |-> ResultStr(namespace[c].result),
                    stdout |-> import_notice(remove_imports(command[c]).removed_imports)
                                   \o buffers[CapturedStdout(c)],
                    stderr |-> buffers[CapturedStderr(c)],
                    success |-> TRUE]]
            /\ UNCHANGED raisedExc
    /\ xpc' = [xpc EXCEPT ![c] = "finally"]
    /\ UNCHANGED <<buffers, command, old_stdout, old_stderr, ip, lambda_response,
                   printed, entry_stdio, overlapped>>
    /\ UNCHANGED <<namespace, orchVars, dedupVars>>

\* the finally block (lines 349-352), and where control goes from it: the
\* return, the except clause of line 354, or out of lambda_handler (line 83)
Finally(c) ==
    /\ xpc[c] = "finally"
    /\ sys_stdout' = FinallyStream(old_stdout[c], sys_stdout)
    /\ sys_stderr' = FinallyStream(old_stderr[c], sys_stderr)
    /\ IF raisedExc[c] = NoException
       THEN /\ xpc' = [xpc EXCEPT ![c] = "respond"]
            /\ UNCHANGED lambda_response
       ELSE IF EngineCatches(raisedExc[c])
       THEN /\ xpc' = [xpc EXCEPT ![c] = "except"]
            /\ UNCHANGED lambda_response
       ELSE IF HandlerCatches(raisedExc[c])
       THEN /\ xpc' = [xpc EXCEPT ![c] = "returned"]
            /\ lambda_response' = [lambda_response EXCEPT ![c] =
                   [statusCode |-> 500,
                    body |-> [success |-> FALSE,
                              output |-> <<"Error: " \o raisedExc[c].str>>,
                              result |-> NoResult, stdout |-> <<>>, stderr |-> <<>>]]]
       ELSE /\ xpc' = [xpc EXCEPT ![c] = "raised"]
            /\ UNCHANGED lambda_response
    /\ UNCHANGED <<buffers, command, old_stdout, old_stderr, ip, raisedExc, execution_result,
                   printed, entry_stdio, overlapped>>
    /\ UNCHANGED <<namespace, orchVars, dedupVars>>

\* the except clause of execute_python_code (lines 354-381)
Except(c) ==
    /\ xpc[c] = "except"
    /\ execution_result' = [execution_result EXCEPT ![c] =
           [result |-> NoResult,
            stdout |-> ErrorStdout(import_notice(remove_imports(command[c]).removed_imports),
                                   buffers[CapturedStdout(c)]),
            stderr |-> buffers[CapturedStderr(c)] \o error_msg(raisedExc[c]),
            success |-> FALSE]]
    /\ xpc' = [xpc EXCEPT ![c] = "respond"]
    /\ UNCHANGED <<sys_stdout, sys_stderr, buffers, command, old_stdout, old_stderr, ip,
                   raisedExc, lambda_response, printed, entry_stdio, overlapped>>
    /\ UNCHANGED <<namespace, orchVars, dedupVars>>

\* lambda_handler after the call (lines 57-81)
Respond(c) ==
    /\ xpc[c] = "respond"
    /\ lambda_response' = [lambda_response EXCEPT ![c] =
           [statusCode |-> 200, body |-> HandlerBody(execution_result[c])]]
    /\ xpc' = [xpc EXCEPT ![c] = "returned"]
    /\ UNCHANGED <<sys_stdout, sys_stderr, buffers, command, old_stdout, old_stderr, ip,
                   raisedExc, execution_result, printed, entry_stdio, overlapped>>
    /\ UNCHANGED <<namespace, orchVars, dedupVars>>

NextSandbox ==
    \/ \E c \in ExecCalls : Begin(c)
    \/ \E c \in ExecCalls : SaveStdio(c)
    \/ \E c \in ExecCalls : Redirect(c)
    \/ \E c \in ExecCalls : ExecStmt(c)
    \/ \E c \in ExecCalls : ExecReturns(c)
    \/ \E c \in ExecCalls : Finally(c)
    \/ \E c \in ExecCalls : Except(c)
    \/ \E c \in ExecCalls : Respond(c)

SpecSandbox == InitSandbox /\ [][NextSandbox]_vars

\* the call c1 runs a command made of imports, assignments to result, a
\* line that does not parse, a print and a raise; c2 runs a print
InitEngine ==
    /\ OrchIdle
    /\ DedupIdle
    /\ SandboxRest
    /\ command \in {[c \in ExecCalls |-> IF c = "c1" THEN a ELSE <<"print('b')">>] :
                       a \in EngineCommands}

SpecEngine == InitEngine /\ [][NextSandbox]_vars

\* the call has left execute_python_code, by return or by exception
LeftEngine(c) == xpc[c] \in {"except", "respond", "returned", "raised"}
Quiet(c) == \A d \in ExecCalls \ {c} : xpc[d] \in Ended \cup {"idle"}
Raised(c) == raisedExc[c] # NoException
Reassigned(c) ==
    \E i \in 1..Len(command[c]) :
        command[c][i] = "sys.stdout = None" /\ \A j \in 1..(i - 1) : command[c][j] \notin RaiseStmts

\* C16: once a call of execute_python_code has returned or raised, and no
\* other call is under way, sys.stdout and sys.stderr are the objects they
\* were just before the call, also when the executed code raised or assigned
\* sys.stdout itself (calls made one at a time).
C16_StdioRestored ==
    \A c \in ExecCalls :
        ~overlapped /\ LeftEngine(c) /\ Quiet(c) =>
            /\ sys_stdout = entry_stdio[c][1]
            /\ sys_stderr = entry_stdio[c][2]

C16_Witness ==
    /\ ~overlapped
    /\ xpc["c1"] = "raised"
    /\ xpc["c2"] = "idle"
    /\ command["c1"] = <<"sys.stdout = None", "raise SystemExit(1)">>
    /\ raisedExc["c1"] = SystemExitExc
    /\ entry_stdio["c1"] = <<"console_out", "console_err">>
    /\ sys_stdout = "console_out"
    /\ sys_stderr = "console_err"

OwnLines(c) == IF c = "c1" THEN {"a"} ELSE {"b"}
NoticeLines ==
    {"Note: Removed 1 import statement(s) for compatibility:",
     "Note: Removed 2 import statement(s) for compatibility:",
     "Note: Removed 3 import statement(s) for compatibility:",
     "  - import boto3", "All required modules are pre-imported.", ""}

\* C17: whatever the interleaving of two calls of execute_python_code, the
\* stdout each returns holds only what its own code printed (after the
\* import notice), and all of it, and once both calls have ended sys.stdout
\* and sys.stderr are the objects in place before either began.
C17_NoSynchronizationNeeded ==
    /\ \A c \in ExecCalls :
          execution_result[c] # NotReturned =>
              /\ Range(execution_result[c].stdout) \subseteq OwnLines(c) \cup NoticeLines
              /\ \A i \in 1..Len(printed[c]) :
                    execution_result[c].stdout[Len(execution_result[c].stdout)
                                               - Len(printed[c]) + i] = printed[c][i]
    /\ (\A c \in ExecCalls : xpc[c] \in Ended) =>
          sys_stdout = "console_out" /\ sys_stderr = "console_err"

\* C18: whatever exception the executed code raises, the call ends by
\* returning, never by raising, and the outcome returned has success False
\* and carries the exception's type and message in stderr.
C18_ExceptionsContained ==
    \A c \in ExecCalls :
        /\ xpc[c] # "raised"
        /\ xpc[c] = "returned" /\ Raised(c) =>
              /\ lambda_response[c].body.success = FALSE
              /\ execution_result[c].success = FALSE
              /\ raisedExc[c].type \o ": " \o raisedExc[c].str
                    \in Range(execution_result[c].stderr)

OnlyImports(cmd) == cmd # <<>> /\ \A i \in 1..Len(cmd) : cmd[i] \in ImportStmts

\* C31: for code that does not parse, remove_imports returns the text as it
\* was with an empty removal list, and the call then ends with statusCode
\* 200, success False and the syntax error in stderr; none of the code runs
\* and, for calls made one at a time, stdout is empty (no import notice).
C31_SyntaxErrorSurfaced ==
    \A c \in ExecCalls :
        ParseFails(command[c]) =>
            /\ remove_imports(command[c]).cleaned_code = command[c]
            /\ remove_imports(command[c]).removed_imports = <<>>
            /\ xpc[c] # "raised"
            /\ printed[c] = <<>>
            /\ namespace[c].result = NoneValue
            /\ execution_result[c] # NotReturned =>
                  /\ raisedExc[c] = SyntaxErrorExc
                  /\ ~execution_result[c].success
                  /\ ~overlapped => execution_result[c].stdout = <<>>
                  /\ execution_result[c].result.is_none
                  /\ "SyntaxError: invalid syntax (<unknown>, line 1)"
                         \in Range(execution_result[c].stderr)
            /\ xpc[c] = "returned" =>
                  /\ lambda_response[c].statusCode = 200
                  /\ ~lambda_response[c].body.success
                  /\ lambda_response[c].body.stderr = execution_result[c].stderr

C31_Witness ==
    /\ command["c1"] = <<"import boto3", "this is not valid python syntax!!!">>
    /\ xpc["c1"] = "returned"
    /\ lambda_response["c1"].statusCode = 200
    /\ ~lambda_response["c1"].body.success
    /\ "Error executing Python code: invalid syntax (<unknown>, line 1)"
           \in Range(lambda_response["c1"].body.stderr)

\* C32: for a command made only of top-level import statements, the cleaned
\* code holds no import statement and the removal list has as many entries
\* as the command has import statements.
C32_OneEntryPerStatement ==
    \A c \in ExecCalls :
        (OnlyImports(command[c]) /\ execution_result[c] # NotReturned) =>
            /\ remove_imports(command[c]).cleaned_code = <<>>
            /\ Len(remove_imports(command[c]).removed_imports) = Len(command[c])

RECURSIVE LastAssigned(_)
\* the value the command's last assignment to result gives
LastAssigned(cmd) ==
    IF cmd = <<>> THEN NoneValue
    ELSE IF cmd[Len(cmd)] \in ResultStmts THEN ValueOf(Unparse(cmd[Len(cmd)]))
    ELSE LastAssigned(SubSeq(cmd, 1, Len(cmd) - 1))

\* C33: the outcome of execute_python_code has a result iff the execution
\* succeeded and the variable result is not None at the end: the JSON text
\* for a dict, str(value) otherwise; a command that never assigns result, or
\* that fails after assigning it, has result None.
C33_ResultOnlyWhenSet ==
    \A c \in ExecCalls :
        execution_result[c] # NotReturned =>
            LET r == execution_result[c]
                v == LastAssigned(command[c])
            IN  /\ ~r.result.is_none <=> (r.success /\ ~v.is_none)
                /\ r.success => namespace[c].result = v
                /\ ~r.result.is_none =>
                      r.result.text = (IF v.kind = "dict" THEN v.json ELSE v.str)
                /\ (\A i \in 1..Len(command[c]) : command[c][i] \notin ResultStmts) =>
                      r.result.is_none
                /\ ~r.success => r.result.is_none

C33_WitnessFailed ==
    /\ xpc["c1"] = "returned"
    /\ command["c1"] = <<"result = {'a': 1}", "raise ValueError('boom')">>
    /\ ~namespace["c1"].result.is_none
    /\ execution_result["c1"].result.is_none
    /\ ~execution_result["c1"].success

C33_Witness ==
    /\ xpc["c1"] = "returned"
    /\ command["c1"] = <<"import os, sys", "result = {'a': 1}">>
    /\ execution_result["c1"].success
    /\ lambda_response["c1"].body.result.text = <<"{", "  \"a\": 1", "}">>

\* what is left of the loop: twice the iterations to come, plus the step
\* of the current one
Variant ==
    IF pc \in {"done", "raised"} THEN 0
    ELSE 2 * (max_iterations - iteration) + (IF pc = "loop" THEN 2 ELSE 1)

\* C34: an invocation of investigate_with_tools makes at most 100 LLM call
\* attempts, failed ones included, and at most 100 tool invocations, and
\* every step it takes brings it nearer to its end, so it terminates when
\* every LLM call and tool invocation returns or raises.
C34_Terminates ==
    /\ [](/\ Len(Converses) <= 100
          /\ Len(Invokes) <= 100
          /\ iteration_count = Len(Converses)
          /\ Variant >= 0)
    /\ [][Variant' < Variant]_vars

C34_Witness ==
    /\ pc = "done"
    /\ Len(Converses) = 100
    /\ Len(Invokes) = 100
    /\ result.iteration_count = 100

LastConverse == Converses[Len(Converses)]

\* C35: when the last LLM call attempt of an invocation raised, the report
\* returned is the error fallback with that error's text, never the default
\* 'no analysis was generated' report.
C35_LastErrorReported ==
    (pc = "done" /\ Converses # <<>> /\ LastConverse.outcome \in LLMErrors) =>
        /\ result.report = error_report(ErrorOf(LastConverse.outcome))
        /\ result.report # DefaultReport

RECURSIVE Alternates(_, _)
\* the roles of msgs are first, the other role, first, ...
Alternates(msgs, first) ==
    \/ msgs = <<>>
    \/ /\ Head(msgs).role = first
       /\ Alternates(Tail(msgs), IF first = "user" THEN "assistant" ELSE "user")

\* C36: in every LLM call the conversation starts with the one user message
\* holding the prompt, its roles alternate user, assistant, user, ... and
\* its last message has role user.
C36_RolesAlternate ==
    (pc = "loop" /\ InRange(iteration)) =>
        /\ messages[1] = UserMsg(tool_prompt)
        /\ Alternates(messages, "user")
        /\ messages[Len(messages)].role = "user"

RECURSIVE TrailingRetryable(_)
\* the number of attempts at the end of cs that failed with a retryable error
TrailingRetryable(cs) ==
    IF cs = <<>> THEN 0
    ELSE IF cs[Len(cs)].outcome \in LLMErrors /\ IsRetryable(ErrorOf(cs[Len(cs)].outcome))
    THEN 1 + TrailingRetryable(SubSeq(cs, 1, Len(cs) - 1))
    ELSE 0

\* the call ended on an LLM error
AbortedOnError ==
    /\ pc = "done"
    /\ Converses # <<>>
    /\ LastConverse.outcome \in LLMErrors
    /\ result.report = error_report(ErrorOf(LastConverse.outcome))

\* C37: an LLM call that returns sets the retry counter to 0, so the counter
\* is the number of retryable failures since the last call that returned:
\* while the investigation goes on it is at most 3, and an investigation
\* that ends on a retryable error has had 4 such failures in a row.
C37_RetriesPerStep ==
    /\ [](pc \in {"loop", "dispatch"} =>
             /\ retry_count = TrailingRetryable(Converses)
             /\ retry_count <= 3)
    /\ []((AbortedOnError /\ IsRetryable(ErrorOf(LastConverse.outcome))) =>
             /\ TrailingRetryable(Converses) = 4
             /\ retry_count = 4)
    /\ [][(Len(Converses') = Len(Converses) + 1
             /\ Converses'[Len(Converses')].outcome \notin LLMErrors) =>
                retry_count' = 0]_vars

C37_Witness ==
    /\ AbortedOnError
    /\ Len(Converses) = 8
    /\ [i \in 1..8 |-> Converses[i].outcome \in LLMErrors]
           = <<TRUE, TRUE, TRUE, FALSE, TRUE, TRUE, TRUE, TRUE>>

\* the response opens with what the stripper removes: the marker of line 264,
\* then a python fenced block
BeginsWithStripDirective(text) == Strip(text) # <<>> /\ 1 \in TrailingStarts(Strip(text))

TextOutcomes == LLMResponses \cup ParseResponses

\* C39: a response that opens with what the stripper takes for a directive is
\* dispatched as a tool call, and no response that is not blank is turned
\* into the default report by the stripping.
C39_RecogniserAgreesWithStripper ==
    /\ \A i \in 1..Len(calls) :
          (/\ calls[i].op = "converse"
           /\ calls[i].outcome \in TextOutcomes
           /\ BeginsWithStripDirective(TextOf(calls[i].outcome))) =>
              IF i = Len(calls) THEN pc = "dispatch" ELSE calls[i + 1].op = "invoke"
    /\ (/\ pc = "done"
        /\ Converses # <<>>
        /\ LastConverse.outcome \in TextOutcomes
        /\ ~OpensWithMarker(TextOf(LastConverse.outcome))
        /\ Strip(TextOf(LastConverse.outcome)) # <<>>) =>
           result.report # DefaultReport

\* the invocation g wrote the item now stored for its alarm
HoldsMarker(g) ==
    /\ EffectsOf(g, "dynamodb.put_item") # <<>>
    /\ ~StoreFailed(g, "dynamodb.put_item")
    /\ table[alarm_name[g]].present
    /\ table[alarm_name[g]].timestamp = should_process[g].at

\* some notification of g, of the investigation or of its error, was published
Delivered(g) ==
    \/ \E i \in 1..Len(Notifications(g)) : Notifications(g)[i].ok
    \/ \E i \in 1..Len(ErrorNotifications(g)) : ErrorNotifications(g)[i].ok

\* C38: the marker of an invocation that has ended without a delivered
\* notification is no longer in the table, and an invocation is skipped as a
\* duplicate of an ended invocation only if that one delivered its
\* notification.
C38_MarkerOnlyAfterDelivery ==
    /\ \A g \in Handlers :
          (hpc[g] = "returned" /\ HoldsMarker(g)) => Delivered(g)
    /\ \A h \in Handlers : \A g \in Handlers \ {h} :
          (/\ hpc[h] = "duplicate"
           /\ hpc[g] = "returned"
           /\ alarm_name[g] = alarm_name[h]
           /\ EffectsOf(g, "dynamodb.put_item") # <<>>
           /\ ~StoreFailed(g, "dynamodb.put_item")
           /\ response[h].timestamp = should_process[g].at) => Delivered(g)
====
